---- MODULE Spec2Model ----
(***************************************************************************)
(* RBAC and multi-tenant query scoping of the legal practice backend.      *)
(*                                                                         *)
(* Part 1: permission catalog, role registry and the role synchronizer     *)
(*         (accounts/rbac.py), with the Django admin as the source of      *)
(*         manual alterations (accounts/admin.py).                         *)
(* Part 2: permission evaluation (accounts/permissions.py).                *)
(* Part 3: organization scoping and row-level restriction                  *)
(*         (config/tenancy.py, accounts/permissions.py) as used by the     *)
(*         matter, deadline, client and document endpoints.                *)
(***************************************************************************)
EXTENDS Naturals, Integers, Sequences, FiniteSets, TLC

VARIABLES
    permRows,     \* Permission table (committed): codename -> sequence of rows
    roleRows,     \* Role table (committed): <<org, name>> -> sequence of rows
    syncPc,       \* position of the running sync_organization_roles call
    syncOrg,      \* organization argument of the running call
    syncIdx,      \* loop index of the running call
    txPermRows,   \* Permission table as seen inside the open transaction
    txRoleRows,   \* Role table as seen inside the open transaction
    syncOutcome,  \* how the last sync_organization_roles call ended, and where
    runPc,        \* concurrent calls: run -> position in sync_organization_roles
    runIdx,       \* concurrent calls: run -> loop index
    runOld,       \* concurrent calls: run -> what role.permissions.set() read
    runTx,        \* concurrent calls: run -> uncommitted writes of its transaction
    userObj,      \* user -> the user object of the user's request in flight
    evaluated,    \* what the last permission evaluation on a user object returned
    userRoles,    \* UserRole table: user -> set of role names (of the user's org)
    portalUser,   \* Client.portal_user: client -> user or NoUser
    matters,      \* Matter table: id -> row or NoRow
    deadlines,    \* CaseDeadline table: id -> row or NoRow
    documents,    \* Document table: id -> row or NoRow
    invoices,     \* Invoice table: id -> row
    payments,     \* Payment table: id -> row
    organizations, \* Organization table: the organizations that have a row
    orgRows,      \* Organization table: org -> name and next_matter_number
    issued,       \* org -> the references generate_matter_reference returned, in order
    matterCodes,  \* Matter.reference_code of the matters saved by the create requests
    createReq,    \* worker -> the POST /matters/ request it is serving
    editReq,      \* worker -> the PATCH /org/ request it is serving
    invitations,  \* Invitation table: token -> row
    now,          \* timezone.now(), in units of the invitation lifetime
    userRows,     \* the invited users whose User row exists
    acceptReq,    \* worker -> the POST /auth/invite/accept/ request it is serving
    uploadReq,    \* worker -> the POST upload-version request it is serving
    shareLinks,   \* ShareLink table: token -> row
    resolveReq,   \* worker -> the GET /share/<token>/ request it is serving
    billReq,      \* worker -> the invoice send or mark-paid request it is serving
    response      \* what the last API request returned

rbacVars == <<permRows, roleRows>>
runVars == <<runPc, runIdx, runOld, runTx>>
cacheVars == <<userObj, evaluated>>
numberVars == <<orgRows, issued, matterCodes, createReq, editReq>>
inviteVars == <<invitations, now, userRows, acceptReq>>
lateVars == <<shareLinks, resolveReq, billReq>>
bizVars == <<invoices, payments, organizations, numberVars, inviteVars, uploadReq, lateVars>>
coreVars == <<rbacVars, syncPc, syncOrg, syncIdx, txPermRows, txRoleRows, syncOutcome, runVars, cacheVars>>
syncVars == <<syncPc, syncOrg, syncIdx, txPermRows, txRoleRows, syncOutcome, runVars, cacheVars, bizVars>>
dataVars == <<userRoles, portalUser, matters, deadlines, documents>>
vars == <<permRows, roleRows, syncPc, syncOrg, syncIdx, txPermRows, txRoleRows,
          syncOutcome, runPc, runIdx, runOld, runTx, userObj, evaluated,
          userRoles, portalUser, matters, deadlines, documents,
          invoices, payments, organizations,
          orgRows, issued, matterCodes, createReq, editReq,
          invitations, now, userRows, acceptReq, uploadReq,
          shareLinks, resolveReq, billReq,
          response>>

(***************************************************************************)
(* Part 1.  Permission catalog and role registry                           *)
(***************************************************************************)

Orgs == {"orgA", "orgB"}
NoOrg == "no-org"

PERMISSION_DEFINITIONS ==
    << [codename |-> "org.manage", label |-> "Manage organization settings"],
       [codename |-> "org.manage_users", label |-> "Manage staff users"],
       [codename |-> "org.invite_clients", label |-> "Invite clients"],
       [codename |-> "org.manage_roles", label |-> "Manage roles & permissions"],
       [codename |-> "org.view_audit_logs", label |-> "View audit logs"],
       [codename |-> "security.manage", label |-> "Manage security settings"],
       [codename |-> "ai.use", label |-> "Use AI assistant"],
       [codename |-> "client.view", label |-> "View clients"],
       [codename |-> "client.manage", label |-> "Manage clients"],
       [codename |-> "matter.view", label |-> "View matters"],
       [codename |-> "matter.manage", label |-> "Manage matters"],
       [codename |-> "matter.view_all", label |-> "View all matters"],
       [codename |-> "document.view", label |-> "View documents"],
       [codename |-> "document.manage", label |-> "Manage documents"],
       [codename |-> "document.manage_visibility", label |-> "Toggle document visibility"],
       [codename |-> "document.view_all", label |-> "View all documents"],
       [codename |-> "invoice.view", label |-> "View invoices"],
       [codename |-> "invoice.manage", label |-> "Manage invoices"],
       [codename |-> "invoice.mark_paid", label |-> "Record payments"],
       [codename |-> "invoice.view_all", label |-> "View all invoices"],
       [codename |-> "billing.record_time", label |-> "Record time entries"],
       [codename |-> "billing.record_expense", label |-> "Record expenses"],
       [codename |-> "billing.export", label |-> "Export billing reports"],
       [codename |-> "messaging.use", label |-> "Secure messaging"],
       [codename |-> "portal.client_access", label |-> "Client portal access"] >>

Codenames == {PERMISSION_DEFINITIONS[i].codename : i \in DOMAIN PERMISSION_DEFINITIONS}

\* The order in which sync_organization_roles visits ROLE_DEFINITIONS (dict order).
RoleOrder ==
    << "Admin", "Owner", "Lawyer", "Paralegal", "Assistant", "Client",
       "Operations Admin", "IT / Security", "Accounting / Finance" >>

SystemRoleNames == {RoleOrder[i] : i \in DOMAIN RoleOrder}

ROLE_DEFINITIONS ==
    [r \in SystemRoleNames |->
        [is_custom |-> FALSE,
         permissions |->
            CASE r \in {"Admin", "Owner"} -> Codenames \ {"portal.client_access"}
              [] r = "Lawyer" ->
                    {"client.view", "matter.view", "matter.manage", "document.view",
                     "document.manage", "document.manage_visibility", "invoice.view",
                     "invoice.manage", "billing.record_time", "billing.record_expense",
                     "messaging.use", "ai.use"}
              [] r = "Paralegal" ->
                    {"client.view", "matter.view", "document.view", "document.manage",
                     "invoice.view", "billing.record_time", "billing.record_expense",
                     "messaging.use"}
              [] r = "Assistant" ->
                    {"client.view", "matter.view", "document.view", "messaging.use"}
              [] r = "Client" -> {"portal.client_access", "messaging.use"}
              [] r = "Operations Admin" ->
                    {"org.manage", "org.invite_clients", "client.view", "client.manage",
                     "invoice.view", "invoice.mark_paid", "invoice.view_all",
                     "billing.export"}
              [] r = "IT / Security" ->
                    {"security.manage", "org.manage_roles", "org.view_audit_logs"}
              [] r = "Accounting / Finance" ->
                    {"invoice.view", "invoice.manage", "invoice.mark_paid",
                     "invoice.view_all", "billing.export"}]]

\* Names an administrator gives to roles of their own.
CustomRoleNames == {"Clerk"}
RoleNames == SystemRoleNames \cup CustomRoleNames
RoleKeys == Orgs \X RoleNames

\* A table maps a key to the sequence of rows stored under it; the unique
\* constraints of the schema mean a sequence longer than one is a duplicate.
EmptyPermRows == [c \in Codenames |-> << >>]
EmptyRoleRows == [k \in RoleKeys |-> << >>]

\* Permission.objects.get_or_create(codename=..., defaults={label, ...}).
PermissionGetOrCreate(rows, definition) ==
    IF rows[definition.codename] # << >>
    THEN rows
    ELSE [rows EXCEPT ![definition.codename] = << [label |-> definition.label] >>]

\* Variant: a row is created whether or not one exists.
RoleGetOrCreateAlways(rows, org, name, is_custom) ==
    [rows EXCEPT ![<<org, name>>] =
        Append(@, [is_custom |-> is_custom, permissions |-> {}])]

\* Role.objects.get_or_create(organization=..., name=..., defaults={is_custom}).
RoleGetOrCreate(rows, org, name, is_custom) ==
    IF rows[<<org, name>>] # << >>
    THEN rows
    ELSE [rows EXCEPT ![<<org, name>>] =
            << [is_custom |-> is_custom, permissions |-> {}] >>]

\* Variant: the flag is written to every role of the organization.
RoleFixIsCustomAll(rows, org, name, is_custom) ==
    [k \in RoleKeys |->
        IF k[1] = org /\ rows[k] # << >>
        THEN [rows[k] EXCEPT ![1].is_custom = is_custom]
        ELSE rows[k]]

\* if role.is_custom != is_custom: role.is_custom = is_custom; role.save(...)
RoleFixIsCustom(rows, org, name, is_custom) ==
    IF rows[<<org, name>>][1].is_custom # is_custom
    THEN [rows EXCEPT ![<<org, name>>][1].is_custom = is_custom]
    ELSE rows

\* Permission.objects.filter(codename__in=permissions): the rows that exist.
PermissionFilter(perms, codes) == {c \in codes : perms[c] # << >>}

\* Variant: role.permissions.add(...), which keeps what the role had.
RoleAddPermissions(rows, org, name, codes) ==
    [rows EXCEPT ![<<org, name>>][1].permissions = @ \cup codes]

\* role.permissions.set(...): the role's permission rows become exactly these.
RoleSetPermissions(rows, org, name, codes) ==
    [rows EXCEPT ![<<org, name>>][1].permissions = codes]

\* Variant: no transaction, the writes made so far stay.
RollbackNothing(committed, working) == working

\* transaction.atomic leaving on an exception: the writes are discarded.
Rollback(committed, working) == committed

\* transaction.atomic leaving normally: the writes become visible.
Commit(committed, working) == working

\* One pass of the body of the role loop up to the is_custom correction.
SyncRoleGet(roles, org, name) ==
    RoleFixIsCustom(
        RoleGetOrCreate(roles, org, name, ROLE_DEFINITIONS[name].is_custom),
        org, name, ROLE_DEFINITIONS[name].is_custom)

\* The last statement of the role loop: role.permissions.set(filter(...)).
SyncRoleSet(perms, roles, org, name) ==
    RoleSetPermissions(roles, org, name,
                       PermissionFilter(perms, ROLE_DEFINITIONS[name].permissions))

\* The tables a complete, successful sync_organization_roles(org) leaves:
\* every pass of the permission loop and of the role loop writes only the
\* row of its own key, so the loops are taken key by key.
SyncedPermRows(perms) ==
    [c \in Codenames |->
        LET i == CHOOSE n \in DOMAIN PERMISSION_DEFINITIONS :
                    PERMISSION_DEFINITIONS[n].codename = c
        IN PermissionGetOrCreate(perms, PERMISSION_DEFINITIONS[i])[c]]

SyncedRoleRows(perms, roles, org) ==
    [k \in RoleKeys |->
        IF k[1] = org /\ k[2] \in SystemRoleNames
        THEN SyncRoleSet(SyncedPermRows(perms), SyncRoleGet(roles, org, k[2]), org, k[2])[k]
        ELSE roles[k]]

(***************************************************************************)
(* sync_organization_roles as a transaction: the call works on its own     *)
(* view of the tables and may fail between any two statements.             *)
(***************************************************************************)

\* What the caller of sync_organization_roles observes: the call returned
\* ("ok") or raised ("failed"), and the statement it was at.
Outcome(result, at) == [result |-> result, at |-> at]

SyncBegin(org) ==
    /\ syncPc = "idle"
    /\ syncPc' = "permissions"
    /\ syncOrg' = org
    /\ syncIdx' = 1
    /\ txPermRows' = permRows
    /\ txRoleRows' = roleRows
    /\ syncOutcome' = Outcome("running", "idle")
    /\ UNCHANGED <<rbacVars, runVars, bizVars, cacheVars, dataVars, response>>

SyncPermission ==
    /\ syncPc = "permissions"
    /\ txPermRows' = PermissionGetOrCreate(txPermRows, PERMISSION_DEFINITIONS[syncIdx])
    /\ IF syncIdx = Len(PERMISSION_DEFINITIONS)
       THEN syncPc' = "role_get" /\ syncIdx' = 1
       ELSE syncPc' = "permissions" /\ syncIdx' = syncIdx + 1
    /\ UNCHANGED <<rbacVars, syncOrg, txRoleRows, syncOutcome, runVars, bizVars, cacheVars, dataVars, response>>

SyncRoleGetStep ==
    /\ syncPc = "role_get"
    /\ txRoleRows' = SyncRoleGet(txRoleRows, syncOrg, RoleOrder[syncIdx])
    /\ syncPc' = "role_set"
    /\ UNCHANGED <<rbacVars, syncOrg, syncIdx, txPermRows, syncOutcome, runVars, bizVars, cacheVars, dataVars, response>>

SyncRoleSetStep ==
    /\ syncPc = "role_set"
    /\ txRoleRows' = SyncRoleSet(txPermRows, txRoleRows, syncOrg, RoleOrder[syncIdx])
    /\ IF syncIdx = Len(RoleOrder)
       THEN syncPc' = "commit" /\ syncIdx' = 1
       ELSE syncPc' = "role_get" /\ syncIdx' = syncIdx + 1
    /\ UNCHANGED <<rbacVars, syncOrg, txPermRows, syncOutcome, runVars, bizVars, cacheVars, dataVars, response>>

SyncCommit ==
    /\ syncPc = "commit"
    /\ permRows' = Commit(permRows, txPermRows)
    /\ roleRows' = Commit(roleRows, txRoleRows)
    /\ syncPc' = "idle"
    /\ syncIdx' = 1
    /\ txPermRows' = EmptyPermRows
    /\ txRoleRows' = EmptyRoleRows
    /\ syncOutcome' = Outcome("ok", syncPc)
    /\ syncOrg' = NoOrg
    /\ UNCHANGED <<runVars, bizVars, cacheVars, dataVars, response>>

\* Any statement of the call raises: the exception leaves the atomic block.
SyncFail ==
    /\ syncPc \in {"permissions", "role_get", "role_set", "commit"}
    /\ permRows' = Rollback(permRows, txPermRows)
    /\ roleRows' = Rollback(roleRows, txRoleRows)
    /\ syncPc' = "idle"
    /\ syncIdx' = 1
    /\ txPermRows' = EmptyPermRows
    /\ txRoleRows' = EmptyRoleRows
    /\ syncOutcome' = Outcome("failed", syncPc)
    /\ syncOrg' = NoOrg
    /\ UNCHANGED <<runVars, bizVars, cacheVars, dataVars, response>>


\* Variant: the receiver does nothing.
ensure_rbac_defaultsNothing(org) ==
    UNCHANGED <<syncPc, syncOrg, syncIdx, txPermRows, txRoleRows, syncOutcome>>

\* The post_save receiver of Organization: sync_organization_roles(instance)
\* is entered in the thread of the save, whether the row was created or updated.
ensure_rbac_defaults(org) ==
    /\ syncPc' = "permissions"
    /\ syncOrg' = org
    /\ syncIdx' = 1
    /\ txPermRows' = permRows
    /\ txRoleRows' = roleRows
    /\ syncOutcome' = Outcome("running", "idle")

\* Organization.objects.create(...): the row is inserted and post_save is sent.
CreateOrganization(org) ==
    /\ syncPc = "idle"
    /\ org \notin organizations
    /\ organizations' = organizations \cup {org}
    /\ ensure_rbac_defaults(org)
    /\ UNCHANGED <<rbacVars, runVars, cacheVars, invoices, payments, numberVars, inviteVars, uploadReq, lateVars, dataVars, response>>

\* organization.save() on an existing row: post_save is sent again.
SaveOrganization(org) ==
    /\ syncPc = "idle"
    /\ org \in organizations
    /\ ensure_rbac_defaults(org)
    /\ UNCHANGED <<rbacVars, runVars, cacheVars, bizVars, dataVars, response>>

(***************************************************************************)
(* Part 2.  Principals and permission evaluation                           *)
(***************************************************************************)

Users == {"liam", "casey", "bob"}
Anonymous == "anonymous"
Principals == Users \cup {Anonymous}
NoUser == "no-user"

\* user.organization_id; AnonymousUser has no such attribute.
organization_id(u) ==
    CASE u \in {"liam", "casey"} -> "orgA"
      [] u = "bob" -> "orgB"
      [] OTHER -> NoOrg

is_authenticated(u) == u \in Users

UsersOfOrg(org) == {u \in Users : organization_id(u) = org}

\* User.roles: the Role rows reached through the user's UserRole rows.
UserRoleRows(u) ==
    {<<organization_id(u), r>> : r \in {n \in userRoles[u] : roleRows[<<organization_id(u), n>>] # << >>}}

_role_names(u) ==
    IF is_authenticated(u) THEN {k[2] : k \in UserRoleRows(u)} ELSE {}

\* Variant: the codes of one of the roles the user holds.
_permission_codesOneRole(u) ==
    IF ~is_authenticated(u) \/ UserRoleRows(u) = {}
    THEN {}
    ELSE roleRows[CHOOSE k \in UserRoleRows(u) : TRUE][1].permissions

\* The union of the permission codes of all roles the user holds.
_permission_codes(u) ==
    IF ~is_authenticated(u)
    THEN {}
    ELSE UNION {roleRows[k][1].permissions : k \in UserRoleRows(u)}


\* Variant: the role name is compared in lower case.
is_client_userLowerCase(u) ==
    IF ~is_authenticated(u) THEN FALSE ELSE "client" \in _role_names(u)

is_client_user(u) ==
    IF ~is_authenticated(u) THEN FALSE ELSE "Client" \in _role_names(u)

has_permission(u, permission) ==
    IF permission = "" THEN TRUE ELSE permission \in _permission_codes(u)

has_permissions(u, permissions) ==
    LET required == {p \in permissions : p # ""}
    IN IF required = {} THEN TRUE ELSE required \subseteq _permission_codes(u)

has_any_permission(u, permissions) ==
    LET options == {p \in permissions : p # ""}
    IN IF options = {} THEN TRUE ELSE (_permission_codes(u) \cap options) # {}

\* PermissionRequirement(all=..., any=...); the value None is NoRequirement.
PermissionRequirement(all, any) == [kind |-> "requirement", all |-> all, any |-> any]
NoRequirement == [kind |-> "none", all |-> {}, any |-> {}]

\* Variant: the authentication test is missing.
is_satisfiedNoAuthentication(requirement, u) ==
    IF requirement.all # {} /\ ~has_permissions(u, requirement.all) THEN FALSE
    ELSE IF requirement.any # {} /\ ~has_any_permission(u, requirement.any) THEN FALSE
    ELSE TRUE

is_satisfied(requirement, u) ==
    IF ~is_authenticated(u) THEN FALSE
    ELSE IF requirement.all # {} /\ ~has_permissions(u, requirement.all) THEN FALSE
    ELSE IF requirement.any # {} /\ ~has_any_permission(u, requirement.any) THEN FALSE
    ELSE TRUE

default_action_permission_map ==
    [a \in {"list", "retrieve", "create", "update", "partial_update", "destroy"} |->
        IF a \in {"list", "retrieve"} THEN "view" ELSE "manage"]

\* The rbac_permissions tables of the viewsets: list/retrieve need `view`,
\* the writing actions need `manage`.
CrudPermissions(view, manage) ==
    [a \in {"list", "retrieve", "create", "update", "partial_update", "destroy"} |->
        IF a \in {"list", "retrieve"}
        THEN PermissionRequirement({view}, {})
        ELSE PermissionRequirement({manage}, {})]

MatterViewSet ==
    [name |-> "MatterViewSet", rbac_resource |-> "matter",
     rbac_permissions |-> CrudPermissions("matter.view", "matter.manage")]

CaseDeadlineViewSet ==
    [name |-> "CaseDeadlineViewSet", rbac_resource |-> "deadline",
     rbac_permissions |-> CrudPermissions("matter.view", "matter.manage")]

ClientViewSet ==
    [name |-> "ClientViewSet", rbac_resource |-> "client",
     rbac_permissions |-> CrudPermissions("client.view", "client.manage")]

\* DocumentViewSet declares neither rbac_resource nor rbac_permissions.
DocumentViewSet ==
    [name |-> "DocumentViewSet", rbac_resource |-> "",
     rbac_permissions |-> [a \in {} |-> NoRequirement]]


\* InvoiceViewSet: the CRUD actions and the extra actions send, mark_paid, download.
InvoiceViewSet ==
    [name |-> "InvoiceViewSet", rbac_resource |-> "invoice",
     rbac_permissions |->
        [a \in {"list", "retrieve", "create", "update", "partial_update", "destroy",
                "send", "mark_paid", "download"} |->
            IF a \in {"list", "retrieve", "download"}
            THEN PermissionRequirement({"invoice.view"}, {})
            ELSE IF a = "mark_paid"
            THEN PermissionRequirement({"invoice.mark_paid"}, {})
            ELSE PermissionRequirement({"invoice.manage"}, {})]]

\* AuditEventViewSet registers list and retrieve only and has a resource tag.
AuditEventViewSet ==
    [name |-> "AuditEventViewSet", rbac_resource |-> "audit",
     rbac_permissions |-> [a \in {"list", "retrieve"} |->
                              PermissionRequirement({"org.view_audit_logs"}, {})]]

\* TimeEntryViewSet: reading needs any of three codes, writing needs one.
TimeEntryViewSet ==
    [name |-> "TimeEntryViewSet", rbac_resource |-> "billing",
     rbac_permissions |->
        [a \in {"list", "retrieve", "create", "update", "partial_update", "destroy"} |->
            IF a \in {"list", "retrieve"}
            THEN PermissionRequirement({}, {"billing.record_time", "invoice.view", "invoice.view_all"})
            ELSE PermissionRequirement({"billing.record_time"}, {})]]

\* Variant: destroy falls back to the view permission of the resource.
get_required_permissionsDestroyAsView(view, action) ==
    IF action = "" THEN NoRequirement
    ELSE IF action \in DOMAIN view.rbac_permissions THEN view.rbac_permissions[action]
    ELSE IF view.rbac_resource = "" THEN NoRequirement
    ELSE IF action \notin DOMAIN default_action_permission_map THEN NoRequirement
    ELSE PermissionRequirement(
            {view.rbac_resource \o "." \o
                (IF action = "destroy" THEN "view" ELSE default_action_permission_map[action])}, {})

get_required_permissions(view, action) ==
    IF action = "" THEN NoRequirement
    ELSE IF action \in DOMAIN view.rbac_permissions THEN view.rbac_permissions[action]
    ELSE IF view.rbac_resource = "" THEN NoRequirement
    ELSE IF action \notin DOMAIN default_action_permission_map THEN NoRequirement
    ELSE PermissionRequirement(
            {view.rbac_resource \o "." \o default_action_permission_map[action]}, {})

\* Variant: the requirement of the action is not evaluated.
RBACPermissionAllowAll(u, view, action) == TRUE

\* RBACPermission.has_permission
RBACPermission(u, view, action) ==
    LET required == get_required_permissions(view, action)
    IN IF required = NoRequirement THEN TRUE ELSE is_satisfied(required, u)

IsOrganizationMember(u) == is_authenticated(u) /\ organization_id(u) # NoOrg

IsNotClient(u) == ~is_client_user(u)

\* permission_classes = [IsOrganizationMember, IsNotClient, RBACPermission],
\* checked in this order before the handler of the action runs.  A request
\* without credentials is answered 401, a refused one 403.
CheckPermissions(u, view, action) ==
    IF ~is_authenticated(u) THEN 401
    ELSE IF ~IsOrganizationMember(u) THEN 403
    ELSE IF ~IsNotClient(u) THEN 403
    ELSE IF ~RBACPermission(u, view, action) THEN 403
    ELSE 200

(***************************************************************************)
(* Part 3.  Tenant data, organization scoping and row-level restriction    *)
(***************************************************************************)

MaxMatters == 2
MaxAccess == 1
MaxDeadlines == 1
MaxDocuments == 1
MaxRolesPerUser == 1

\* The Client rows; only their portal_user changes here.
Clients == {"c1", "c2", "c3"}
NoClient == "no-client"
clients ==
    [c \in Clients |->
        [organization |-> IF c = "c3" THEN "orgB" ELSE "orgA", is_deleted |-> FALSE]]

\* The User rows as a table with an organization column.
users == [u \in Users |-> [organization |-> organization_id(u)]]

\* The reverse one-to-one accessor user.client_profile (None when absent).
client_profile(u) ==
    IF \E c \in Clients : portalUser[c] = u
    THEN CHOOSE c \in Clients : portalUser[c] = u
    ELSE NoClient

\* Variant: a request without credentials is given the first organization.
RequestOrganizationIdDefaulted(u) ==
    IF is_authenticated(u) THEN organization_id(u) ELSE "orgA"

\* request.organization_id as the authentication and the tenant middleware
\* set it: the organization of the authenticated user, else None.
RequestOrganizationId(u) ==
    IF is_authenticated(u) THEN organization_id(u) ELSE NoOrg

\* Variant: the organization filter is left out.
get_querysetUnscoped(table, queryset, u) ==
    IF organization_id(u) = NoOrg THEN {} ELSE queryset

\* OrganizationScopedQuerySetMixin.get_queryset over the rows `queryset` of `table`.
get_queryset(table, queryset, u) ==
    LET org_id == IF RequestOrganizationId(u) # NoOrg
                  THEN RequestOrganizationId(u)
                  ELSE organization_id(u)
    IN IF org_id = NoOrg
       THEN {}
       ELSE {id \in queryset : table[id].organization = org_id}

\* OrganizationScopedPrimaryKeyRelatedField.get_queryset: the related rows a
\* request may name.
related_field_queryset(table, u) ==
    LET org_id == IF RequestOrganizationId(u) # NoOrg
                  THEN RequestOrganizationId(u)
                  ELSE organization_id(u)
    IN IF org_id = NoOrg
       THEN {}
       ELSE {id \in DOMAIN table : table[id].organization = org_id}

\* Variant: the bypass test is inverted.
restrict_matters_querysetInverted(queryset, u, bypass_permission) ==
    IF ~has_permission(u, bypass_permission)
    THEN queryset
    ELSE {m \in queryset : matters[m].lead_lawyer = u \/ u \in matters[m].access_list}

\* Variant: lead and access rows are consulted before the client profile.
restrict_matters_querysetStaffFirst(queryset, u, bypass_permission) ==
    IF has_permission(u, bypass_permission)
    THEN queryset
    ELSE IF \E m \in queryset : matters[m].lead_lawyer = u \/ u \in matters[m].access_list
    THEN {m \in queryset : matters[m].lead_lawyer = u \/ u \in matters[m].access_list}
    ELSE {m \in queryset : matters[m].client = client_profile(u)}

\* Variant: the access list is not consulted.
restrict_matters_querysetLeadOnly(queryset, u, bypass_permission) ==
    IF has_permission(u, bypass_permission)
    THEN queryset
    ELSE IF client_profile(u) # NoClient
    THEN {m \in queryset : matters[m].client = client_profile(u)}
    ELSE {m \in queryset : matters[m].lead_lawyer = u}

restrict_matters_queryset(queryset, u, bypass_permission) ==
    IF has_permission(u, bypass_permission)
    THEN queryset
    ELSE IF client_profile(u) # NoClient
    THEN {m \in queryset : matters[m].client = client_profile(u)}
    ELSE {m \in queryset : matters[m].lead_lawyer = u \/ u \in matters[m].access_list}

\* related_field is given as the function `related` taking a row to the
\* matters it reaches; `visible` gives the row's client_visible flag.
restrict_related_queryset(queryset, u, related, bypass_permission, client_visible_only, visible) ==
    IF has_permission(u, bypass_permission)
    THEN queryset
    ELSE IF client_profile(u) # NoClient
    THEN {r \in queryset :
            /\ \E m \in related[r] : matters[m].client = client_profile(u)
            /\ client_visible_only => visible[r]}
    ELSE {r \in queryset :
            /\ \E m \in related[r] :
                   matters[m].lead_lawyer = u \/ u \in matters[m].access_list
            /\ client_visible_only => visible[r]}

DeadlineMatter == [d \in DOMAIN deadlines |-> {deadlines[d].matter}]
ClientMatters == [c \in Clients |-> {m \in DOMAIN matters : matters[m].client = c}]
DocumentMatter == [d \in DOMAIN documents |-> {documents[d].matter}]
DeadlineNotFlagged == [d \in DOMAIN deadlines |-> TRUE]
ClientNotFlagged == [c \in Clients |-> TRUE]
DocumentClientVisible == [d \in DOMAIN documents |-> documents[d].client_visible]

\* MatterViewSet.get_queryset
MatterQueryset(u) ==
    restrict_matters_queryset(
        get_queryset(matters, {m \in DOMAIN matters : ~matters[m].is_deleted}, u),
        u, "matter.view_all")

\* CaseDeadlineViewSet.get_queryset
DeadlineQueryset(u) ==
    restrict_related_queryset(
        get_queryset(deadlines, DOMAIN deadlines, u),
        u, DeadlineMatter, "matter.view_all", FALSE, DeadlineNotFlagged)

\* ClientViewSet.get_queryset
ClientQueryset(u) ==
    restrict_related_queryset(
        get_queryset(clients, {c \in Clients : ~clients[c].is_deleted}, u),
        u, ClientMatters, "client.manage", FALSE, ClientNotFlagged)

\* DocumentViewSet inherits get_queryset from the organization mixin.
DocumentQueryset(u) == get_queryset(documents, DOMAIN documents, u)


InvoiceMatter == [i \in DOMAIN invoices |-> {invoices[i].matter}]
InvoiceNotFlagged == [i \in DOMAIN invoices |-> TRUE]

\* InvoiceViewSet.get_queryset (no status parameter).
InvoiceQueryset(u) ==
    restrict_related_queryset(
        get_queryset(invoices, DOMAIN invoices, u),
        u, InvoiceMatter, "invoice.view_all", FALSE, InvoiceNotFlagged)

\* ClientDocumentViewSet.get_queryset (no matter or search parameter).
ClientDocumentQueryset(u) ==
    LET client == client_profile(u)
    IN IF client = NoClient
       THEN {}
       ELSE {d \in DOMAIN documents :
                /\ documents[d].organization = clients[client].organization
                /\ matters[documents[d].matter].client = client
                /\ documents[d].client_visible}

(***************************************************************************)
(* The requests.  Every request first passes the permission classes of its *)
(* view; only then its handler runs.                                       *)
(***************************************************************************)

NoResponse == [op |-> "none", user |-> NoUser, status |-> 0]
Respond(op, u, status) == [op |-> op, user |-> u, status |-> status]

\* The primary key a new row gets (a fresh UUID in the code).
NextId(table, max) ==
    CHOOSE i \in 1..max : i \notin DOMAIN table /\ \A j \in 1..(i - 1) : j \in DOMAIN table

\* The role names handed out to each user here; casey is the person invited
\* to the client portal, as the portal user of client c1.
AssignableRoles(u) ==
    CASE u = "liam" -> {"Admin", "Lawyer", "Assistant"}
      [] u = "bob" -> {"Lawyer"}
      [] OTHER -> {}
InvitedUsers == {"casey"}
InvitedClients == {"c1"}

\* The users named as lead lawyer or given a MatterAccess row here.
LeadChoices == {NoUser, "liam", "bob"}
AccessUsers == {"liam", "bob"}

\* The number of MatterAccess rows.
RECURSIVE AccessCount(_)
AccessCount(ms) ==
    IF ms = {} THEN 0
    ELSE LET m == CHOOSE x \in ms : TRUE
         IN Cardinality(matters[m].access_list) + AccessCount(ms \ {m})

(***************************************************************************)
(* The user object of a request.  Authentication loads the user row into a *)
(* new object for every request; _role_names and _permission_codes keep    *)
(* what they computed in two attributes of that object.                    *)
(***************************************************************************)

\* getattr(user, "_cached_...", None): the attribute is absent, or holds a set.
NoCache == [cached |-> FALSE, value |-> {}]
Cached(value) == [cached |-> TRUE, value |-> value]

\* No request of the user is in flight.
NoObject == [live |-> FALSE, _cached_role_names |-> NoCache, _cached_permission_codes |-> NoCache, origin |-> "none", changed |-> FALSE, seen |-> {}, before |-> {}]

\* JWTCookieAuthentication.authenticate: self.get_user(validated_token).
\* origin, changed, seen and before record history: how the attributes were
\* last emptied, whether the user's membership changed since, the
\* permissions has_permission has returned True for on this object, and
\* those it returned True for in earlier requests of the user.
LoadUser(previous) == [live |-> TRUE, _cached_role_names |-> NoCache, _cached_permission_codes |-> NoCache, origin |-> "loaded", changed |-> FALSE, seen |-> {}, before |-> previous.before]

\* Variant: the object, with its attributes, serves the next request too.
ReleaseUserKept(obj) == [obj EXCEPT !.origin = "loaded", !.changed = FALSE, !.seen = {}, !.before = @ \cup obj.seen]

\* The response is sent: nothing refers to request.user any more.
ReleaseUser(obj) == [NoObject EXCEPT !.before = obj.before \cup obj.seen]

\* _role_names: the attribute when set, else the role names read now.
MemoRoleNames(obj, u) ==
    IF obj._cached_role_names.cached THEN obj._cached_role_names.value ELSE _role_names(u)

\* _permission_codes: the attribute when set, else the codes read now.
MemoPermissionCodes(obj, u) ==
    IF obj._cached_permission_codes.cached THEN obj._cached_permission_codes.value ELSE _permission_codes(u)

\* Variant: only the role names are forgotten.
clear_permission_cacheNamesOnly(obj) ==
    [obj EXCEPT !._cached_role_names = NoCache, !.origin = "cleared", !.changed = FALSE]

clear_permission_cache(obj) ==
    [obj EXCEPT !._cached_role_names = NoCache, !._cached_permission_codes = NoCache, !.origin = "cleared", !.changed = FALSE]

\* A UserRole row of the user was written while the object is in use.
MembershipChanged(obj) == IF obj.live THEN [obj EXCEPT !.changed = TRUE] ELSE obj

NoEvaluation == [op |-> "none", user |-> NoUser, permission |-> "", view |-> "", action |-> "", requirement |-> NoRequirement, result |-> FALSE]
CheckedPermissions == {"matter.view", "org.manage"}
RequestUsers == {"liam", "casey"}

\* The account exists: invited users have none before they accept.
UserExists(u) == u \notin InvitedUsers \/ client_profile(u) # NoClient

CacheFrame == UNCHANGED <<rbacVars, syncPc, syncOrg, syncIdx, txPermRows, txRoleRows, syncOutcome, runVars, bizVars, dataVars>>

\* A request of user u arrives and is authenticated.
RequestBegin(u) ==
    /\ UserExists(u)
    /\ ~userObj[u].live
    /\ userObj' = [userObj EXCEPT ![u] = LoadUser(@)]
    /\ evaluated' = NoEvaluation
    /\ response' = NoResponse
    /\ CacheFrame

\* has_permission(request.user, permission) during the request.
RequestHasPermission(u, permission) ==
    /\ userObj[u].live
    /\ LET codes == MemoPermissionCodes(userObj[u], u)
           result == IF permission = "" THEN TRUE ELSE permission \in codes
       IN /\ userObj' = [userObj EXCEPT ![u]._cached_permission_codes = Cached(codes),
                                        ![u].seen = IF result THEN @ \cup {permission} ELSE @]
          /\ evaluated' = [NoEvaluation EXCEPT !.op = "has_permission", !.user = u, !.permission = permission, !.result = result]
    /\ response' = NoResponse
    /\ CacheFrame

\* is_client_user(request.user) during the request.
RequestIsClientUser(u) ==
    /\ userObj[u].live
    /\ LET names == MemoRoleNames(userObj[u], u)
       IN /\ userObj' = [userObj EXCEPT ![u]._cached_role_names = Cached(names)]
          /\ evaluated' = [NoEvaluation EXCEPT !.op = "is_client_user", !.user = u, !.result = "Client" \in names]
    /\ response' = NoResponse
    /\ CacheFrame

\* clear_permission_cache(request.user) during the request.
RequestClearCache(u) ==
    /\ userObj[u].live
    /\ userObj' = [userObj EXCEPT ![u] = clear_permission_cache(@)]
    /\ evaluated' = NoEvaluation
    /\ response' = NoResponse
    /\ CacheFrame

\* The request of user u ends.
RequestEnd(u) ==
    /\ userObj[u].live
    /\ userObj' = [userObj EXCEPT ![u] = ReleaseUser(@)]
    /\ evaluated' = NoEvaluation
    /\ response' = NoResponse
    /\ CacheFrame

\* ensure_role(user, organization, role_name)
GrantRole(u, r) ==
    /\ roleRows[<<organization_id(u), r>>] # << >>
    /\ r \notin userRoles[u]
    /\ Cardinality(userRoles[u]) < MaxRolesPerUser
    /\ userRoles' = [userRoles EXCEPT ![u] = @ \cup {r}]
    /\ userObj' = [userObj EXCEPT ![u] = IF @.live THEN clear_permission_cache(@) ELSE @]
    /\ evaluated' = NoEvaluation
    /\ response' = NoResponse
    /\ UNCHANGED <<rbacVars, syncPc, syncOrg, syncIdx, txPermRows, txRoleRows, syncOutcome, runVars, bizVars>>
    /\ UNCHANGED <<portalUser, matters, deadlines, documents>>

\* A UserRole row is deleted (UserRoleAdmin).
RevokeRole(u, r) ==
    /\ r \in userRoles[u]
    /\ userRoles' = [userRoles EXCEPT ![u] = @ \ {r}]
    /\ userObj' = [userObj EXCEPT ![u] = MembershipChanged(@)]
    /\ evaluated' = NoEvaluation
    /\ response' = NoResponse
    /\ UNCHANGED <<rbacVars, syncPc, syncOrg, syncIdx, txPermRows, txRoleRows, syncOutcome, runVars, bizVars>>
    /\ UNCHANGED <<portalUser, matters, deadlines, documents>>

\* InvitationAcceptSerializer.create for an invitation with the Client role
\* naming client c: the new user u gets the role and becomes c's portal user
\* unless c already has one.
AcceptClientInvitation(u, c) ==
    /\ userRoles[u] = {}
    /\ client_profile(u) = NoClient
    /\ clients[c].organization = organization_id(u)
    /\ roleRows[<<organization_id(u), "Client">>] # << >>
    /\ userRoles' = [userRoles EXCEPT ![u] = {"Client"}]
    /\ portalUser' = IF portalUser[c] = NoUser
                     THEN [portalUser EXCEPT ![c] = u]
                     ELSE portalUser
    /\ userObj' = [userObj EXCEPT ![u] = MembershipChanged(@)]
    /\ evaluated' = NoEvaluation
    /\ response' = NoResponse
    /\ UNCHANGED <<rbacVars, syncPc, syncOrg, syncIdx, txPermRows, txRoleRows, syncOutcome, runVars, bizVars>>
    /\ UNCHANGED <<matters, deadlines, documents>>

\* A MatterAccess row is added for user u on matter m.
GrantMatterAccess(m, u) ==
    /\ m \in DOMAIN matters
    /\ u \notin matters[m].access_list
    /\ AccessCount(DOMAIN matters) < MaxAccess
    /\ matters' = [matters EXCEPT ![m].access_list = @ \cup {u}]
    /\ response' = NoResponse
    /\ UNCHANGED <<rbacVars, syncVars, userRoles, portalUser, deadlines, documents>>

\* GET /matters/
ListMatters(u) ==
    /\ response' = Respond("matter.list", u, CheckPermissions(u, MatterViewSet, "list"))
    /\ UNCHANGED <<rbacVars, syncVars, dataVars>>

\* POST /matters/ with client_id c and lead_lawyer lead
CreateMatter(u, c, lead) ==
    LET status == CheckPermissions(u, MatterViewSet, "create")
        valid == /\ c \in related_field_queryset(clients, u)
                 /\ lead = NoUser \/ lead \in related_field_queryset(users, u)
    IN /\ status = 200 /\ valid => Cardinality(DOMAIN matters) < MaxMatters
       /\ IF status # 200
          THEN response' = Respond("matter.create", u, status) /\ UNCHANGED matters
          ELSE IF ~valid
          THEN response' = Respond("matter.create", u, 400) /\ UNCHANGED matters
          ELSE /\ matters' = matters @@
                    (NextId(matters, MaxMatters) :>
                        [organization |-> organization_id(u), client |-> c,
                         lead_lawyer |-> lead, access_list |-> {},
                         is_deleted |-> FALSE])
               /\ response' = Respond("matter.create", u, 201)
       /\ UNCHANGED <<rbacVars, syncVars, userRoles, portalUser, deadlines, documents>>

\* PATCH /matters/<m>/ with lead_lawyer lead
UpdateMatter(u, m, lead) ==
    LET status == CheckPermissions(u, MatterViewSet, "partial_update")
    IN /\ IF status # 200
          THEN response' = Respond("matter.update", u, status) /\ UNCHANGED matters
          ELSE IF m \notin MatterQueryset(u)
          THEN response' = Respond("matter.update", u, 404) /\ UNCHANGED matters
          ELSE IF ~(lead = NoUser \/ lead \in related_field_queryset(users, u))
          THEN response' = Respond("matter.update", u, 400) /\ UNCHANGED matters
          ELSE /\ matters' = [matters EXCEPT ![m].lead_lawyer = lead]
               /\ response' = Respond("matter.update", u, 200)
       /\ UNCHANGED <<rbacVars, syncVars, userRoles, portalUser, deadlines, documents>>

\* GET /deadlines/
ListDeadlines(u) ==
    /\ response' = Respond("deadline.list", u, CheckPermissions(u, CaseDeadlineViewSet, "list"))
    /\ UNCHANGED <<rbacVars, syncVars, dataVars>>

\* POST /deadlines/ with matter_id m
CreateDeadline(u, m) ==
    LET status == CheckPermissions(u, CaseDeadlineViewSet, "create")
        valid == m \in related_field_queryset(matters, u)
    IN /\ status = 200 /\ valid => Cardinality(DOMAIN deadlines) < MaxDeadlines
       /\ IF status # 200
          THEN response' = Respond("deadline.create", u, status) /\ UNCHANGED deadlines
          ELSE IF ~valid
          THEN response' = Respond("deadline.create", u, 400) /\ UNCHANGED deadlines
          ELSE /\ deadlines' = deadlines @@
                    (NextId(deadlines, MaxDeadlines) :>
                        [organization |-> organization_id(u), matter |-> m])
               /\ response' = Respond("deadline.create", u, 201)
       /\ UNCHANGED <<rbacVars, syncVars, userRoles, portalUser, matters, documents>>

\* GET /clients/
ListClients(u) ==
    /\ response' = Respond("client.list", u, CheckPermissions(u, ClientViewSet, "list"))
    /\ UNCHANGED <<rbacVars, syncVars, dataVars>>

\* GET /documents/
ListDocuments(u) ==
    /\ response' = Respond("document.list", u, CheckPermissions(u, DocumentViewSet, "list"))
    /\ UNCHANGED <<rbacVars, syncVars, dataVars>>

\* POST /documents/ with matter m
CreateDocument(u, m) ==
    LET status == CheckPermissions(u, DocumentViewSet, "create")
        valid == m \in related_field_queryset(matters, u)
    IN /\ status = 200 /\ valid => Cardinality(DOMAIN documents) < MaxDocuments
       /\ IF status # 200
          THEN response' = Respond("document.create", u, status) /\ UNCHANGED documents
          ELSE IF "Client" \in userRoles[u]
          THEN response' = Respond("document.create", u, 403) /\ UNCHANGED documents
          ELSE IF ~valid
          THEN response' = Respond("document.create", u, 400) /\ UNCHANGED documents
          ELSE /\ documents' = documents @@
                    (NextId(documents, MaxDocuments) :>
                        [organization |-> organization_id(u), matter |-> m,
                         client_visible |-> FALSE, version |-> 1, versions |-> <<1>>])
               /\ response' = Respond("document.create", u, 201)
       /\ UNCHANGED <<rbacVars, syncVars, userRoles, portalUser, matters, deadlines>>

\* PATCH /documents/<d>/ with client_visible
UpdateDocument(u, d, visible) ==
    LET status == CheckPermissions(u, DocumentViewSet, "partial_update")
    IN /\ IF status # 200
          THEN response' = Respond("document.update", u, status) /\ UNCHANGED documents
          ELSE IF d \notin DocumentQueryset(u)
          THEN response' = Respond("document.update", u, 404) /\ UNCHANGED documents
          ELSE /\ documents' = [documents EXCEPT ![d].client_visible = visible]
               /\ response' = Respond("document.update", u, 200)
       /\ UNCHANGED <<rbacVars, syncVars, userRoles, portalUser, matters, deadlines>>

\* A primary key no row has.
NoSuchId == MaxMatters + MaxDeadlines + MaxDocuments + 1

\* Whose row the request names: a row of the principal's organization, a row
\* of another organization, or no row.
TargetClass(table, u, id) ==
    IF id \notin DOMAIN table THEN "missing"
    ELSE IF table[id].organization = organization_id(u) THEN "own"
    ELSE "foreign"

\* The response to a request that names a row, with what it named: the row
\* of the URL ("pk") or a row given in a field of the payload.
Targeted(op, u, status, field, target) ==
    [op |-> op, user |-> u, status |-> status, field |-> field, target |-> target]

\* The related field ModelSerializer builds for a foreign key that the
\* serializer does not declare: PrimaryKeyRelatedField over all rows.
model_field_queryset(table) == DOMAIN table

\* GET /matters/<id>/
RetrieveMatter(u, id) ==
    LET status == CheckPermissions(u, MatterViewSet, "retrieve")
        found == IF status # 200 THEN status ELSE IF id \in MatterQueryset(u) THEN 200 ELSE 404
    IN /\ response' = Targeted("matter.retrieve", u, found, "pk", TargetClass(matters, u, id))
       /\ UNCHANGED <<rbacVars, syncVars, dataVars>>

\* GET /documents/<id>/
RetrieveDocument(u, id) ==
    LET status == CheckPermissions(u, DocumentViewSet, "retrieve")
        found == IF status # 200 THEN status ELSE IF id \in DocumentQueryset(u) THEN 200 ELSE 404
    IN /\ response' = Targeted("document.retrieve", u, found, "pk", TargetClass(documents, u, id))
       /\ UNCHANGED <<rbacVars, syncVars, dataVars>>

\* PATCH /documents/<d>/ with matter: DocumentSerializer lists matter among
\* its fields and does not declare it.
UpdateDocumentMatter(u, d, m) ==
    LET status == CheckPermissions(u, DocumentViewSet, "partial_update")
    IN /\ IF status # 200
          THEN /\ response' = Targeted("document.partial_update", u, status, "pk", TargetClass(documents, u, d))
               /\ UNCHANGED documents
          ELSE IF d \notin DocumentQueryset(u)
          THEN /\ response' = Targeted("document.partial_update", u, 404, "pk", TargetClass(documents, u, d))
               /\ UNCHANGED documents
          ELSE IF m \notin model_field_queryset(matters)
          THEN /\ response' = Targeted("document.partial_update", u, 400, "matter", TargetClass(matters, u, m))
               /\ UNCHANGED documents
          ELSE /\ documents' = [documents EXCEPT ![d].matter = m]
               /\ response' = Targeted("document.partial_update", u, 200, "matter", TargetClass(matters, u, m))
       /\ UNCHANGED <<rbacVars, syncVars, userRoles, portalUser, matters, deadlines>>

\* GET /client/documents/ (permission_classes = [IsAuthenticated])
ClientListDocuments(u) ==
    /\ response' = Respond("portal.document.list", u,
                           IF is_authenticated(u) THEN 200 ELSE 401)
    /\ UNCHANGED <<rbacVars, syncVars, dataVars>>


\* GET /invoices/
ListInvoices(u) ==
    /\ response' = Respond("invoice.list", u, CheckPermissions(u, InvoiceViewSet, "list"))
    /\ UNCHANGED <<rbacVars, syncVars, dataVars>>

\* What a list request answered 200 returns: the view's queryset.
ListResult(op, u) ==
    CASE op = "matter.list" -> MatterQueryset(u)
      [] op = "deadline.list" -> DeadlineQueryset(u)
      [] op = "client.list" -> ClientQueryset(u)
      [] op = "document.list" -> DocumentQueryset(u)
      [] op = "invoice.list" -> InvoiceQueryset(u)
      [] op = "portal.document.list" -> ClientDocumentQueryset(u)
      [] OTHER -> {}

(***************************************************************************)
(* Manual alterations through the Django admin (RoleAdmin,                 *)
(* PermissionAdmin).  They are taken between synchronizer runs.            *)
(***************************************************************************)

\* Role names and permission sets an administrator enters here.
AdminRoleNames == {"Lawyer", "Clerk"}
ManualPermSets == { {"matter.view"}, {"matter.view", "matter.view_all"} }
EditablePerms == {"matter.view_all"}
AdminOrgs == {"orgA"}

\* RoleAdmin: a role is added, or an existing one edited.
AdminSaveRole(org, name, is_custom, codes) ==
    /\ syncPc = "idle"
    /\ \A c \in codes : permRows[c] # << >>
    /\ LET row == [is_custom |-> is_custom, permissions |-> PermissionFilter(permRows, codes)]
       IN roleRows' = [roleRows EXCEPT ![<<org, name>>] =
                          IF @ = << >> THEN << row >> ELSE [@ EXCEPT ![1] = row]]
    /\ response' = NoResponse
    /\ UNCHANGED <<permRows, syncVars, dataVars>>

\* RoleAdmin: a role is deleted; its UserRole rows go with it.
AdminDeleteRole(org, name) ==
    /\ syncPc = "idle"
    /\ roleRows[<<org, name>>] # << >>
    /\ roleRows' = [roleRows EXCEPT ![<<org, name>>] = << >>]
    /\ userRoles' = [u \in Users |->
                        IF organization_id(u) = org THEN userRoles[u] \ {name}
                        ELSE userRoles[u]]
    /\ response' = NoResponse
    /\ UNCHANGED <<permRows, syncVars, portalUser, matters, deadlines, documents>>

\* PermissionAdmin: a permission is deleted; every role loses it.
AdminDeletePermission(c) ==
    /\ syncPc = "idle"
    /\ permRows[c] # << >>
    /\ permRows' = [permRows EXCEPT ![c] = << >>]
    /\ roleRows' = [k \in RoleKeys |->
                        [i \in DOMAIN roleRows[k] |->
                            [roleRows[k][i] EXCEPT !.permissions = @ \ {c}]]]
    /\ response' = NoResponse
    /\ UNCHANGED <<syncVars, dataVars>>


\* PermissionAdmin: the label of a permission is edited.
EditedLabels == {"Edited in the admin"}

AdminSavePermission(c, label) ==
    /\ syncPc = "idle"
    /\ permRows[c] # << >>
    /\ permRows[c][1].label # label
    /\ permRows' = [permRows EXCEPT ![c] = [i \in DOMAIN @ |-> [@[i] EXCEPT !.label = label]]]
    /\ response' = NoResponse
    /\ UNCHANGED <<roleRows, syncVars, dataVars>>

(***************************************************************************)
(* Concurrent calls of sync_organization_roles for one organization.  Each *)
(* call is one transaction of the PostgreSQL database at its default       *)
(* isolation level: a statement reads the committed rows and the writes of *)
(* its own transaction, and a write waits while another open transaction   *)
(* holds an uncommitted write of the same row or of the same unique key.   *)
(***************************************************************************)

Runs == {"run1", "run2"}
RunOrg == "orgA"

\* The writes of an open transaction: Permission rows inserted, Role rows
\* inserted, Role rows whose is_custom was saved, and per role the rows of
\* the role-permission table deleted and inserted.
NoTx == [perms |-> {}, roles |-> {}, flags |-> {}, del |-> [n \in SystemRoleNames |-> {}], add |-> [n \in SystemRoleNames |-> {}]]
NoOld == [old |-> {}, new |-> {}]

\* The Permission table as a transaction with these writes reads it.
TxPermRows(rows, tx) ==
    [c \in Codenames |-> IF c \in tx.perms THEN SyncedPermRows(rows)[c] ELSE rows[c]]

\* The Role table as a transaction with these writes reads it.
TxRoleRows(rows, tx, org) ==
    [k \in RoleKeys |->
        IF k[1] # org \/ k[2] \notin SystemRoleNames
        THEN rows[k]
        ELSE LET n == k[2]
                 base == IF n \in tx.roles
                         THEN RoleGetOrCreate(rows, org, n, ROLE_DEFINITIONS[n].is_custom)[k]
                         ELSE rows[k]
             IN IF base = << >>
                THEN base
                ELSE [base EXCEPT
                        ![1].is_custom = IF n \in tx.flags THEN ROLE_DEFINITIONS[n].is_custom ELSE @,
                        ![1].permissions = (@ \ tx.del[n]) \cup tx.add[n]]]

\* Permission.codename is unique: an insert of a codename waits for the open
\* transaction that inserted the same codename.
PermLocked(p, c) == \E q \in Runs \ {p} : c \in runTx[q].perms

\* Variant: no unique_together on Role, an insert never waits.
RoleLockedNever(p, n) == FALSE

\* Role is unique per (name, organization), and a row update waits for the
\* open transaction that wrote the row.
RoleLocked(p, n) == \E q \in Runs \ {p} : n \in runTx[q].roles \cup runTx[q].flags

\* A delete or insert of a role-permission row waits for the open
\* transaction that deleted or inserted the same row.
LinkLocked(p, n, links) ==
    \E q \in Runs \ {p} : links \cap (runTx[q].del[n] \cup runTx[q].add[n]) # {}

CacheIdle ==
    /\ userObj = [u \in Users |-> NoObject]
    /\ evaluated = NoEvaluation

RunsIdle ==
    /\ runPc = [p \in Runs |-> "idle"]
    /\ runIdx = [p \in Runs |-> 1]
    /\ runOld = [p \in Runs |-> NoOld]
    /\ runTx = [p \in Runs |-> NoTx]

RunFrame == UNCHANGED <<syncPc, syncOrg, syncIdx, txPermRows, txRoleRows, cacheVars, bizVars, dataVars>>

\* The call enters transaction.atomic.
RunBegin(p) ==
    /\ syncPc = "idle"
    /\ runPc[p] = "idle"
    /\ runPc' = [runPc EXCEPT ![p] = "permissions"]
    /\ syncOutcome' = Outcome("running", "idle")
    /\ response' = NoResponse
    /\ UNCHANGED <<rbacVars, runIdx, runOld, runTx>>
    /\ RunFrame

\* One pass of the permission loop: Permission.objects.get_or_create(...).
RunPermission(p) ==
    /\ runPc[p] = "permissions"
    /\ LET definition == PERMISSION_DEFINITIONS[runIdx[p]]
           view == TxPermRows(permRows, runTx[p])
           created == PermissionGetOrCreate(view, definition) # view
       IN /\ created => ~PermLocked(p, definition.codename)
          /\ runTx' = [runTx EXCEPT ![p].perms =
                          IF created THEN @ \cup {definition.codename} ELSE @]
    /\ IF runIdx[p] = Len(PERMISSION_DEFINITIONS)
       THEN runPc' = [runPc EXCEPT ![p] = "role_get"] /\ runIdx' = [runIdx EXCEPT ![p] = 1]
       ELSE runPc' = runPc /\ runIdx' = [runIdx EXCEPT ![p] = @ + 1]
    /\ response' = NoResponse
    /\ UNCHANGED <<rbacVars, runOld, syncOutcome>>
    /\ RunFrame

\* Role.objects.get_or_create(...) and the is_custom correction.
RunRoleGet(p) ==
    /\ runPc[p] = "role_get"
    /\ LET n == RoleOrder[runIdx[p]]
           is_custom == ROLE_DEFINITIONS[n].is_custom
           view == TxRoleRows(roleRows, runTx[p], RunOrg)
           got == RoleGetOrCreate(view, RunOrg, n, is_custom)
           created == got # view
           saved == RoleFixIsCustom(got, RunOrg, n, is_custom) # got
       IN /\ (created \/ saved) => ~RoleLocked(p, n)
          /\ runTx' = [runTx EXCEPT ![p].roles = IF created THEN @ \cup {n} ELSE @,
                                    ![p].flags = IF saved THEN @ \cup {n} ELSE @]
    /\ runPc' = [runPc EXCEPT ![p] = "role_read"]
    /\ response' = NoResponse
    /\ UNCHANGED <<rbacVars, runIdx, runOld, syncOutcome>>
    /\ RunFrame

\* role.permissions.set(...), first half: the filter is evaluated and the
\* permissions the role has are read.
RunRoleRead(p) ==
    /\ runPc[p] = "role_read"
    /\ LET n == RoleOrder[runIdx[p]]
           view == TxRoleRows(roleRows, runTx[p], RunOrg)
       IN runOld' = [runOld EXCEPT ![p] =
                        [old |-> view[<<RunOrg, n>>][1].permissions,
                         new |-> PermissionFilter(TxPermRows(permRows, runTx[p]),
                                                  ROLE_DEFINITIONS[n].permissions)]]
    /\ runPc' = [runPc EXCEPT ![p] = "role_write"]
    /\ response' = NoResponse
    /\ UNCHANGED <<rbacVars, runIdx, runTx, syncOutcome>>
    /\ RunFrame

\* role.permissions.set(...), second half: the rows read and not wanted are
\* deleted, the rows wanted and not read are inserted.
RunRoleWrite(p) ==
    /\ runPc[p] = "role_write"
    /\ LET n == RoleOrder[runIdx[p]]
           k == <<RunOrg, n>>
           view == TxRoleRows(roleRows, runTx[p], RunOrg)
           asRead == [view EXCEPT ![k][1].permissions = runOld[p].old]
           wanted == RoleSetPermissions(asRead, RunOrg, n, runOld[p].new)[k][1].permissions
           del == runOld[p].old \ wanted
           add == wanted \ runOld[p].old
       IN /\ ~LinkLocked(p, n, del \cup add)
          /\ runTx' = [runTx EXCEPT ![p].del[n] = @ \cup del, ![p].add[n] = @ \cup add]
    /\ IF runIdx[p] = Len(RoleOrder)
       THEN runPc' = [runPc EXCEPT ![p] = "commit"] /\ runIdx' = [runIdx EXCEPT ![p] = 1]
       ELSE runPc' = [runPc EXCEPT ![p] = "role_get"] /\ runIdx' = [runIdx EXCEPT ![p] = @ + 1]
    /\ runOld' = [runOld EXCEPT ![p] = NoOld]
    /\ response' = NoResponse
    /\ UNCHANGED <<rbacVars, syncOutcome>>
    /\ RunFrame

\* The call returns: transaction.atomic commits.
RunCommit(p) ==
    /\ runPc[p] = "commit"
    /\ permRows' = Commit(permRows, TxPermRows(permRows, runTx[p]))
    /\ roleRows' = Commit(roleRows, TxRoleRows(roleRows, runTx[p], RunOrg))
    /\ runPc' = [runPc EXCEPT ![p] = "idle"]
    /\ runIdx' = [runIdx EXCEPT ![p] = 1]
    /\ runOld' = [runOld EXCEPT ![p] = NoOld]
    /\ runTx' = [runTx EXCEPT ![p] = NoTx]
    /\ syncOutcome' = Outcome("ok", "commit")
    /\ response' = NoResponse
    /\ RunFrame

\* A statement of the call raises: transaction.atomic rolls back.
RunFail(p) ==
    /\ runPc[p] \in {"permissions", "role_get", "role_read", "role_write", "commit"}
    /\ permRows' = Rollback(permRows, TxPermRows(permRows, runTx[p]))
    /\ roleRows' = Rollback(roleRows, TxRoleRows(roleRows, runTx[p], RunOrg))
    /\ runPc' = [runPc EXCEPT ![p] = "idle"]
    /\ runIdx' = [runIdx EXCEPT ![p] = 1]
    /\ runOld' = [runOld EXCEPT ![p] = NoOld]
    /\ runTx' = [runTx EXCEPT ![p] = NoTx]
    /\ syncOutcome' = Outcome("failed", runPc[p])
    /\ response' = NoResponse
    /\ RunFrame

(***************************************************************************)
(* Specifications                                                          *)
(***************************************************************************)


(***************************************************************************)
(* Matter numbering.  Matter.save asks the organization for a reference    *)
(* when none was supplied; PATCH /org/ saves the whole Organization row.   *)
(* Each request runs in its own worker, statement by statement.            *)
(***************************************************************************)

MaxSequence == 2
MaxCodes == 2
Creators == {"w1", "w2"}
Editors == {"e1"}
NumberOrgs == {"orgA"}
OrgNames == {"Demo Law", "Atlas Law"}
Years == {2026}

\* Organization.get_matter_code_prefix with matter_code_prefix blank: the
\* first four alphanumeric characters of the name in upper case.
get_matter_code_prefix(row) ==
    CASE row.name = "Demo Law" -> "DEMO"
      [] row.name = "Atlas Law" -> "ATLA"
      [] OTHER -> "MAT"

\* The decimal digits of n, most significant first.
RECURSIVE Digits(_)
Digits(n) == IF n < 10 THEN <<n>> ELSE Append(Digits(n \div 10), n % 10)

\* f"{sequence:04d}": zero-padded to four digits, longer when n needs more.
FourDigits(n) ==
    LET d == Digits(n)
    IN IF Len(d) >= 4 THEN d ELSE [i \in 1..(4 - Len(d)) |-> 0] \o d

\* f"{prefix}-{year}-{sequence:04d}"
FormatReference(prefix, year, sequence) ==
    [prefix |-> prefix, year |-> year, sequence |-> FourDigits(sequence)]

\* A reference code typed into the payload.
Custom(text) == [text |-> text]
NoCode == Custom("")
SuppliedCodes == {NoCode, Custom("CUSTOM-001"), FormatReference("DEMO", 2026, 1)}

NoCreate == [pc |-> "idle", org |-> NoOrg, reference_code |-> NoCode, status |-> 0]
NoEdit == [pc |-> "idle", org |-> NoOrg, instance |-> [name |-> "", next_matter_number |-> 0]]

NumberIdle ==
    /\ orgRows = [org \in Orgs |-> [name |-> "Demo Law", next_matter_number |-> 1]]
    /\ issued = [org \in Orgs |-> << >>]
    /\ matterCodes = << >>
    /\ createReq = [p \in Creators |-> NoCreate]
    /\ editReq = [q \in Editors |-> NoEdit]

NumberFrame ==
    UNCHANGED <<coreVars, invoices, payments, organizations, inviteVars, uploadReq, lateVars, dataVars, response>>

\* POST /matters/ passed the permission classes and the serializer:
\* perform_create calls Matter.save with the reference code of the payload.
MatterSaveBegin(p, org, code) ==
    /\ createReq[p].pc = "idle"
    /\ Len(matterCodes) < MaxCodes
    /\ createReq' = [createReq EXCEPT ![p] =
            [pc |-> IF code = NoCode THEN "generate" ELSE "insert",
             org |-> org, reference_code |-> code, status |-> 0]]
    /\ UNCHANGED <<orgRows, issued, matterCodes, editReq>>
    /\ NumberFrame

\* Variant: the counter is read and written without advancing it.
generate_matter_referenceNoIncrement(rows, org) == rows

\* Organization.generate_matter_reference, the atomic block: the row is
\* locked, its counter read and written back one higher.
generate_matter_reference(rows, org) ==
    [rows EXCEPT ![org].next_matter_number = @ + 1]

MatterSaveGenerate(p, year) ==
    LET org == createReq[p].org
        sequence == orgRows[org].next_matter_number
        reference == FormatReference(get_matter_code_prefix(orgRows[org]), year, sequence)
    IN /\ createReq[p].pc = "generate"
       /\ Len(issued[org]) < MaxSequence
       /\ orgRows' = generate_matter_reference(orgRows, org)
       /\ issued' = [issued EXCEPT ![org] = Append(@, reference)]
       /\ createReq' = [createReq EXCEPT ![p].pc = "insert", ![p].reference_code = reference]
       /\ UNCHANGED <<matterCodes, editReq>>
       /\ NumberFrame

\* super().save(): the INSERT; reference_code is unique over all matters.
MatterSaveInsert(p) ==
    LET code == createReq[p].reference_code
        taken == \E i \in DOMAIN matterCodes : matterCodes[i].reference_code = code
    IN /\ createReq[p].pc = "insert"
       /\ IF taken
          THEN /\ createReq' = [createReq EXCEPT ![p].pc = "done", ![p].status = 500]
               /\ UNCHANGED matterCodes
          ELSE /\ matterCodes' = Append(matterCodes,
                        [organization |-> createReq[p].org, reference_code |-> code,
                         generated |-> code \in {issued[createReq[p].org][i] :
                                                    i \in DOMAIN issued[createReq[p].org]}])
               /\ createReq' = [createReq EXCEPT ![p].pc = "done", ![p].status = 201]
       /\ UNCHANGED <<orgRows, issued, editReq>>
       /\ NumberFrame

\* The response has been sent; the worker takes the next request.
MatterSaveEnd(p) ==
    /\ createReq[p].pc = "done"
    /\ createReq' = [createReq EXCEPT ![p] = NoCreate]
    /\ UNCHANGED <<orgRows, issued, matterCodes, editReq>>
    /\ NumberFrame

\* PATCH /org/: OrganizationViewSet.get_object loads the row.
OrganizationUpdateLoad(q, org) ==
    /\ editReq[q].pc = "idle"
    /\ editReq' = [editReq EXCEPT ![q] = [pc |-> "save", org |-> org, instance |-> orgRows[org]]]
    /\ UNCHANGED <<orgRows, issued, matterCodes, createReq>>
    /\ NumberFrame

\* serializer.save(): the name of the payload is set on the loaded instance
\* and instance.save() writes every column of it.
OrganizationUpdateSave(q, name) ==
    /\ editReq[q].pc = "save"
    /\ orgRows' = [orgRows EXCEPT ![editReq[q].org] = [editReq[q].instance EXCEPT !.name = name]]
    /\ editReq' = [editReq EXCEPT ![q] = NoEdit]
    /\ UNCHANGED <<issued, matterCodes, createReq>>
    /\ NumberFrame


(***************************************************************************)
(* Invitations.  POST /auth/invite/accept/ validates the token and then    *)
(* creates the account; two workers serve such requests at the same time.  *)
(***************************************************************************)

MaxClock == 2
Tokens == {"t1", "t2"}
Acceptors == {"a1", "a2"}

\* What the invitation behind each token was issued with: both go to the
\* e-mail address of casey, one for the portal of client c1, one for staff.
InvitationPayload ==
    [t \in Tokens |->
        IF t = "t1"
        THEN [email |-> "casey", role |-> "Client", client |-> "c1", organization |-> "orgA"]
        ELSE [email |-> "casey", role |-> "Assistant", client |-> "no-client", organization |-> "orgA"]]

NoInvitation ==
    [status |-> "none", expires_at |-> 0, email |-> "", role |-> "",
     client |-> "no-client", organization |-> "no-org"]
NoAccept == [pc |-> "idle", token |-> "", status |-> 0]

InviteIdle ==
    /\ invitations = [t \in Tokens |-> NoInvitation]
    /\ now = 0
    /\ userRows = {}
    /\ acceptReq = [p \in Acceptors |-> NoAccept]

InviteFrame ==
    UNCHANGED <<coreVars, invoices, payments, organizations, numberVars, uploadReq, shareLinks, resolveReq, billReq, matters, deadlines, documents, response>>

\* Invitation.issue(email, role, organization, client=...): STATUS_PENDING,
\* expires_at one lifetime from now.
InvitationIssue(t) ==
    /\ invitations[t].status = "none"
    /\ roleRows[<<InvitationPayload[t].organization, InvitationPayload[t].role>>] # << >>
    /\ invitations' = [invitations EXCEPT ![t] =
            [status |-> "pending", expires_at |-> now + 1,
             email |-> InvitationPayload[t].email, role |-> InvitationPayload[t].role,
             client |-> InvitationPayload[t].client,
             organization |-> InvitationPayload[t].organization]]
    /\ UNCHANGED <<now, userRows, acceptReq, userRoles, portalUser>>
    /\ InviteFrame

\* Time passes.
Tick ==
    /\ now < MaxClock
    /\ now' = now + 1
    /\ UNCHANGED <<invitations, userRows, acceptReq, userRoles, portalUser>>
    /\ InviteFrame

\* Variant: only the status is looked at.
is_validStatusOnly(invitation, time) == invitation.status = "pending"

\* Invitation.is_valid
is_valid(invitation, time) == invitation.status = "pending" /\ time < invitation.expires_at

\* InvitationAcceptSerializer.validate: the invitation is looked up by token
\* and must be valid, else the request is answered 400.
AcceptValidate(p, t) ==
    /\ acceptReq[p].pc = "idle"
    /\ IF invitations[t].status # "none" /\ is_valid(invitations[t], now)
       THEN acceptReq' = [acceptReq EXCEPT ![p] = [pc |-> "create", token |-> t, status |-> 0]]
       ELSE acceptReq' = [acceptReq EXCEPT ![p] = [pc |-> "done", token |-> t, status |-> 400]]
    /\ UNCHANGED <<invitations, now, userRows, userRoles, portalUser>>
    /\ InviteFrame

\* InvitationAcceptSerializer.create up to the client link: create_user
\* (User.email is unique: a second account for the address raises
\* IntegrityError, answered 500), the UserRole row, and for the Client role
\* the portal_user of the invitation's client unless it has one.
AcceptCreate(p) ==
    LET t == acceptReq[p].token
        u == invitations[t].email
        c == invitations[t].client
    IN /\ acceptReq[p].pc = "create"
       /\ IF u \in userRows
          THEN /\ acceptReq' = [acceptReq EXCEPT ![p].pc = "done", ![p].status = 500]
               /\ UNCHANGED <<userRows, userRoles, portalUser>>
          ELSE /\ userRows' = userRows \cup {u}
               /\ userRoles' = [userRoles EXCEPT ![u] = @ \cup {invitations[t].role}]
               /\ portalUser' =
                    IF invitations[t].role = "Client" /\ c # NoClient /\ portalUser[c] = NoUser
                    THEN [portalUser EXCEPT ![c] = u]
                    ELSE portalUser
               /\ acceptReq' = [acceptReq EXCEPT ![p].pc = "mark"]
       /\ UNCHANGED <<invitations, now>>
       /\ InviteFrame

\* Invitation.mark_accepted, then the 201 response.
AcceptMark(p) ==
    /\ acceptReq[p].pc = "mark"
    /\ invitations' = [invitations EXCEPT ![acceptReq[p].token].status = "accepted"]
    /\ acceptReq' = [acceptReq EXCEPT ![p].pc = "done", ![p].status = 201]
    /\ UNCHANGED <<now, userRows, userRoles, portalUser>>
    /\ InviteFrame

\* The response has been sent; the worker takes the next request.
AcceptEnd(p) ==
    /\ acceptReq[p].pc = "done"
    /\ acceptReq' = [acceptReq EXCEPT ![p] = NoAccept]
    /\ UNCHANGED <<invitations, now, userRows, userRoles, portalUser>>
    /\ InviteFrame


(***************************************************************************)
(* Document versions.  A document row carries its version and, as          *)
(* versions, the version_number of each DocumentVersion row that points    *)
(* at it, in the order the rows were created.                              *)
(***************************************************************************)

MaxVersion == 3
Uploaders == {"v1", "v2"}
NoUpload == [pc |-> "idle", user |-> "", document |-> 0, next_version |-> 0, status |-> 0]

UploadIdle == uploadReq = [w \in Uploaders |-> NoUpload]

UploadFrame ==
    UNCHANGED <<coreVars, invoices, payments, organizations, numberVars, inviteVars, lateVars,
                userRoles, portalUser, matters, deadlines, response>>

\* upload_version, first part: the permission checks, get_object and
\* next_version = document.version + 1.
UploadVersionLoad(w, u, d) ==
    LET status == CheckPermissions(u, DocumentViewSet, "upload_version")
    IN /\ uploadReq[w].pc = "idle"
       /\ d \in DOMAIN documents => documents[d].version < MaxVersion
       /\ uploadReq' = [uploadReq EXCEPT ![w] =
            IF status # 200
            THEN [pc |-> "done", user |-> u, document |-> d, next_version |-> 0, status |-> status]
            ELSE IF d \notin DocumentQueryset(u)
            THEN [pc |-> "done", user |-> u, document |-> d, next_version |-> 0, status |-> 404]
            ELSE [pc |-> "save", user |-> u, document |-> d,
                  next_version |-> documents[d].version + 1, status |-> 0]]
       /\ UNCHANGED documents
       /\ UploadFrame

\* document.version = next_version; document.save(update_fields=[...])
UploadVersionSave(w) ==
    /\ uploadReq[w].pc = "save"
    /\ documents' = [documents EXCEPT ![uploadReq[w].document].version = uploadReq[w].next_version]
    /\ uploadReq' = [uploadReq EXCEPT ![w].pc = "row"]
    /\ UploadFrame

\* DocumentVersion.objects.create(document=document, version_number=next_version, ...)
\* and the 200 response.
UploadVersionRow(w) ==
    /\ uploadReq[w].pc = "row"
    /\ documents' = [documents EXCEPT ![uploadReq[w].document].versions =
                        Append(@, uploadReq[w].next_version)]
    /\ uploadReq' = [uploadReq EXCEPT ![w].pc = "done", ![w].status = 200]
    /\ UploadFrame

\* The response has been sent; the worker takes the next request.
UploadVersionEnd(w) ==
    /\ uploadReq[w].pc = "done"
    /\ uploadReq' = [uploadReq EXCEPT ![w] = NoUpload]
    /\ UNCHANGED documents
    /\ UploadFrame


(***************************************************************************)
(* Share links.  GET /share/<token>/ needs no authentication; two workers  *)
(* serve such requests at the same time.  accessed counts the              *)
(* portal.sharelink.accessed audit events written for the link.            *)
(***************************************************************************)

MaxAccessed == 2
LinkTokens == {"s1", "s2"}
Resolvers == {"g1", "g2"}
NoLink == [state |-> "none", document |-> 0, one_time |-> FALSE, expires_at |-> 0, accessed |-> 0]
NoResolve == [pc |-> "idle", token |-> "", one_time |-> FALSE, status |-> 0]

LinkIdle ==
    /\ shareLinks = [t \in LinkTokens |-> NoLink]
    /\ resolveReq = [g \in Resolvers |-> NoResolve]

ShareLinkViewSet ==
    [name |-> "ShareLinkViewSet", rbac_resource |-> "",
     rbac_permissions |-> [a \in {} |-> NoRequirement]]

LinkFrame ==
    UNCHANGED <<coreVars, invoices, payments, organizations, numberVars, inviteVars, uploadReq,
                billReq, dataVars>>

\* ShareLinkViewSet.create: the document must belong to the requester's
\* organization; the token is drawn afresh, so no token is ever used twice.
ShareLinkCreate(u, t, d, one_time) ==
    LET status == CheckPermissions(u, ShareLinkViewSet, "create")
        valid == d \in related_field_queryset(documents, u)
    IN /\ shareLinks[t].state = "none"
       /\ IF status # 200
          THEN response' = Respond("sharelink.create", u, status) /\ UNCHANGED shareLinks
          ELSE IF ~valid
          THEN response' = Respond("sharelink.create", u, 400) /\ UNCHANGED shareLinks
          ELSE /\ shareLinks' = [shareLinks EXCEPT ![t] =
                    [state |-> "live", document |-> d, one_time |-> one_time,
                     expires_at |-> now + 1, accessed |-> 0]]
               /\ response' = Respond("sharelink.create", u, 201)
       /\ UNCHANGED resolveReq
       /\ LinkFrame

\* ShareLink.is_valid
LinkIsValid(link, time) == time < link.expires_at

\* ShareLinkResolveView.get, first part: the lookup by token (404 when no
\* row has it) and the expiry test (410).
ResolveLookup(g, t) ==
    /\ resolveReq[g].pc = "idle"
    /\ shareLinks[t].accessed < MaxAccessed
    /\ resolveReq' = [resolveReq EXCEPT ![g] =
            IF shareLinks[t].state # "live"
            THEN [pc |-> "done", token |-> t, one_time |-> FALSE, status |-> 404]
            ELSE IF ~LinkIsValid(shareLinks[t], now)
            THEN [pc |-> "done", token |-> t, one_time |-> FALSE, status |-> 410]
            ELSE [pc |-> "serve", token |-> t, one_time |-> shareLinks[t].one_time, status |-> 0]]
    /\ UNCHANGED <<shareLinks, response>>
    /\ LinkFrame

\* ShareLinkResolveView.get, second part: the download URL is generated,
\* a one-time link is deleted (deleting a row that is already gone deletes
\* nothing and raises nothing), the access is audited and the URL returned.
ResolveServe(g) ==
    LET t == resolveReq[g].token
    IN /\ resolveReq[g].pc = "serve"
       /\ shareLinks' = [shareLinks EXCEPT
                ![t].state = IF resolveReq[g].one_time THEN "deleted" ELSE @,
                ![t].accessed = @ + 1]
       /\ resolveReq' = [resolveReq EXCEPT ![g].pc = "done", ![g].status = 200]
       /\ UNCHANGED response
       /\ LinkFrame

\* The response has been sent; the worker takes the next request.
ResolveEnd(g) ==
    /\ resolveReq[g].pc = "done"
    /\ resolveReq' = [resolveReq EXCEPT ![g] = NoResolve]
    /\ UNCHANGED <<shareLinks, response>>
    /\ LinkFrame

(***************************************************************************)
(* Invoice status.  send and mark-paid read the invoice with get_object    *)
(* and write it back afterwards; two workers serve such requests.          *)
(***************************************************************************)

MaxPayments == 2
Billers == {"b1", "b2"}
NoBill == [pc |-> "idle", op |-> "", user |-> "", invoice |-> 0, loaded |-> "", status |-> 0]

BillIdle == billReq = [w \in Billers |-> NoBill]

BillFrame ==
    UNCHANGED <<coreVars, organizations, numberVars, inviteVars, uploadReq, shareLinks,
                resolveReq, dataVars>>

\* send and mark_paid up to their early return: the permission checks,
\* get_object, and the test of the status just read ("sent" for send,
\* "paid" for mark_paid), which answers 200 with the invoice untouched.
InvoiceLoad(w, op, u, id) ==
    LET status == CheckPermissions(u, InvoiceViewSet, op)
        stop == IF op = "send" THEN "sent" ELSE "paid"
    IN /\ billReq[w].pc = "idle"
       /\ op \in {"send", "mark_paid"}
       /\ billReq' = [billReq EXCEPT ![w] =
            IF status # 200
            THEN [pc |-> "done", op |-> op, user |-> u, invoice |-> id, loaded |-> "", status |-> status]
            ELSE IF id \notin InvoiceQueryset(u)
            THEN [pc |-> "done", op |-> op, user |-> u, invoice |-> id, loaded |-> "", status |-> 404]
            ELSE IF invoices[id].status = stop
            THEN [pc |-> "done", op |-> op, user |-> u, invoice |-> id,
                  loaded |-> invoices[id].status, status |-> 200]
            ELSE [pc |-> "write", op |-> op, user |-> u, invoice |-> id,
                  loaded |-> invoices[id].status, status |-> 0]]
       /\ UNCHANGED <<invoices, payments, response>>
       /\ BillFrame

\* send: invoice.status = "sent"; invoice.save(update_fields=["status"])
InvoiceSend(w) ==
    /\ billReq[w].pc = "write"
    /\ billReq[w].op = "send"
    /\ invoices' = [invoices EXCEPT ![billReq[w].invoice].status = "sent"]
    /\ billReq' = [billReq EXCEPT ![w].pc = "done", ![w].status = 200]
    /\ UNCHANGED <<payments, response>>
    /\ BillFrame

\* mark_paid: in one transaction, a Payment row for the invoice and
\* invoice.status = "paid".
InvoiceMarkPaid(w) ==
    /\ billReq[w].pc = "write"
    /\ billReq[w].op = "mark_paid"
    /\ Len(payments) < MaxPayments
    /\ payments' = Append(payments,
            [organization |-> invoices[billReq[w].invoice].organization,
             invoice |-> billReq[w].invoice])
    /\ invoices' = [invoices EXCEPT ![billReq[w].invoice].status = "paid"]
    /\ billReq' = [billReq EXCEPT ![w].pc = "done", ![w].status = 200]
    /\ UNCHANGED response
    /\ BillFrame

\* The response has been sent; the worker takes the next request.
InvoiceEnd(w) ==
    /\ billReq[w].pc = "done"
    /\ billReq' = [billReq EXCEPT ![w] = NoBill]
    /\ UNCHANGED <<invoices, payments, response>>
    /\ BillFrame

\* Both organizations exist; no invoice and no payment has been recorded.
BizIdle ==
    /\ invoices = << >>
    /\ payments = << >>
    /\ organizations = Orgs
    /\ NumberIdle
    /\ InviteIdle
    /\ UploadIdle
    /\ LinkIdle
    /\ BillIdle

SyncIdle ==
    /\ RunsIdle
    /\ CacheIdle
    /\ BizIdle
    /\ syncPc = "idle"
    /\ syncOrg = NoOrg
    /\ syncIdx = 1
    /\ txPermRows = EmptyPermRows
    /\ txRoleRows = EmptyRoleRows
    /\ syncOutcome = Outcome("none", "idle")

NoData ==
    /\ userRoles = [u \in Users |-> {}]
    /\ portalUser = [c \in Clients |-> NoUser]
    /\ matters = << >>
    /\ deadlines = << >>
    /\ documents = << >>
    /\ response = NoResponse

\* Both organizations exist and were synchronized when they were created.
Init ==
    /\ permRows = SyncedPermRows(EmptyPermRows)
    /\ roleRows = SyncedRoleRows(EmptyPermRows,
                     SyncedRoleRows(EmptyPermRows, EmptyRoleRows, "orgA"), "orgB")
    /\ SyncIdle
    /\ NoData

\* A refused request does not read its payload: one payload stands for all.
Payload(status, isFirst) == status = 200 \/ isFirst

MatterNext ==
    \/ \E u \in Users : \E r \in AssignableRoles(u) : GrantRole(u, r)
    \/ \E u \in Users : \E r \in AssignableRoles(u) \cup {"Client"} : RevokeRole(u, r)
    \/ \E u \in InvitedUsers, c \in InvitedClients : AcceptClientInvitation(u, c)
    \/ \E m \in DOMAIN matters, u \in AccessUsers : GrantMatterAccess(m, u)
    \/ \E u \in Principals : ListMatters(u)
    \/ \E u \in Principals, c \in Clients, lead \in LeadChoices :
            /\ Payload(CheckPermissions(u, MatterViewSet, "create"), c = "c1" /\ lead = NoUser)
            /\ CreateMatter(u, c, lead)
    \/ \E u \in Principals, m \in DOMAIN matters, lead \in LeadChoices :
            /\ Payload(CheckPermissions(u, MatterViewSet, "partial_update"), lead = NoUser)
            /\ UpdateMatter(u, m, lead)
    \/ \E u \in Principals : ListClients(u)

ChildNext ==
    \/ \E u \in Principals : ListDeadlines(u)
    \/ \E u \in Principals, m \in DOMAIN matters : CreateDeadline(u, m)
    \/ \E u \in Principals : ListDocuments(u)
    \/ \E u \in Principals, m \in DOMAIN matters : CreateDocument(u, m)
    \/ \E u \in Principals, d \in DOMAIN documents, v \in BOOLEAN :
            /\ Payload(CheckPermissions(u, DocumentViewSet, "partial_update"), v)
            /\ UpdateDocument(u, d, v)
    \/ \E u \in Principals : ClientListDocuments(u)

Next == MatterNext

Spec == Init /\ [][Next]_vars

\* The organizations exist; the synchronizer has not run yet.
SyncInit ==
    /\ permRows = EmptyPermRows
    /\ roleRows = EmptyRoleRows
    /\ SyncIdle
    /\ NoData

SyncNext ==
    \/ \E org \in Orgs : SyncBegin(org)
    \/ SyncPermission
    \/ SyncRoleGetStep
    \/ SyncRoleSetStep
    \/ SyncCommit
    \/ SyncFail
    \/ \E org \in AdminOrgs, name \in AdminRoleNames, c \in BOOLEAN, codes \in ManualPermSets :
            AdminSaveRole(org, name, c, codes)
    \/ \E org \in AdminOrgs, name \in AdminRoleNames : AdminDeleteRole(org, name)
    \/ \E c \in EditablePerms : AdminDeletePermission(c)

SyncSpec == SyncInit /\ [][SyncNext]_vars



\* Organizations are created and saved; users are given roles as soon as the
\* roles exist.
CreationInit ==
    /\ permRows = EmptyPermRows
    /\ roleRows = EmptyRoleRows
    /\ RunsIdle
    /\ CacheIdle
    /\ syncPc = "idle"
    /\ syncOrg = NoOrg
    /\ syncIdx = 1
    /\ txPermRows = EmptyPermRows
    /\ txRoleRows = EmptyRoleRows
    /\ syncOutcome = Outcome("none", "idle")
    /\ invoices = << >>
    /\ payments = << >>
    /\ organizations = {}
    /\ NumberIdle
    /\ InviteIdle
    /\ UploadIdle
    /\ LinkIdle
    /\ BillIdle
    /\ NoData

CreationNext ==
    \/ \E org \in Orgs : CreateOrganization(org)
    \/ \E org \in Orgs : SaveOrganization(org)
    \/ SyncPermission
    \/ SyncRoleGetStep
    \/ SyncRoleSetStep
    \/ SyncCommit
    \/ SyncFail
    \/ \E u \in Users : \E r \in AssignableRoles(u) : GrantRole(u, r)
    \/ \E u \in Users : \E r \in AssignableRoles(u) : RevokeRole(u, r)

CreationSpec == CreationInit /\ [][CreationNext]_vars


\* Matters are created by two workers while the organization is edited.
NumberNext ==
    \/ \E p \in Creators, org \in NumberOrgs, code \in SuppliedCodes : MatterSaveBegin(p, org, code)
    \/ \E p \in Creators, year \in Years : MatterSaveGenerate(p, year)
    \/ \E p \in Creators : MatterSaveInsert(p)
    \/ \E p \in Creators : MatterSaveEnd(p)
    \/ \E q \in Editors, org \in NumberOrgs : OrganizationUpdateLoad(q, org)
    \/ \E q \in Editors, name \in OrgNames : OrganizationUpdateSave(q, name)

NumberSpec == Init /\ [][NumberNext]_vars


\* Invitations are issued, accepted by two workers, and expire.
InviteNext ==
    \/ \E t \in Tokens : InvitationIssue(t)
    \/ Tick
    \/ \E p \in Acceptors, t \in Tokens : AcceptValidate(p, t)
    \/ \E p \in Acceptors : AcceptCreate(p)
    \/ \E p \in Acceptors : AcceptMark(p)
    \/ \E p \in Acceptors : AcceptEnd(p)

InviteSpec == Init /\ [][InviteNext]_vars


\* Synchronizer runs on a catalog whose rows are edited or deleted between runs.
CatalogNext ==
    \/ \E org \in AdminOrgs : SyncBegin(org)
    \/ SyncPermission
    \/ SyncRoleGetStep
    \/ SyncRoleSetStep
    \/ SyncCommit
    \/ SyncFail
    \/ \E c \in EditablePerms, label \in EditedLabels : AdminSavePermission(c, label)
    \/ \E c \in EditablePerms : AdminDeletePermission(c)

CatalogSpec == SyncInit /\ [][CatalogNext]_vars

\* Matters as the matter endpoints leave them: two of orgA (one led by liam
\* for client c1, one without lead for client c2) and one of orgB.
MatterFixture ==
    (1 :> [organization |-> "orgA", client |-> "c1", lead_lawyer |-> "liam",
           access_list |-> {}, is_deleted |-> FALSE])
    @@ (2 :> [organization |-> "orgA", client |-> "c2", lead_lawyer |-> NoUser,
              access_list |-> {}, is_deleted |-> FALSE])
    @@ (3 :> [organization |-> "orgB", client |-> "c3", lead_lawyer |-> "bob",
              access_list |-> {"liam"}, is_deleted |-> FALSE])

ChildInit ==
    /\ permRows = SyncedPermRows(EmptyPermRows)
    /\ roleRows = SyncedRoleRows(EmptyPermRows,
                     SyncedRoleRows(EmptyPermRows, EmptyRoleRows, "orgA"), "orgB")
    /\ SyncIdle
    /\ userRoles = [u \in Users |-> {}]
    /\ portalUser = [c \in Clients |-> NoUser]
    /\ matters = MatterFixture
    /\ deadlines = << >>
    /\ documents = << >>
    /\ response = NoResponse

ChildSpecNext ==
    \/ \E u \in Users : \E r \in AssignableRoles(u) : GrantRole(u, r)
    \/ \E u \in Users : \E r \in AssignableRoles(u) \cup {"Client"} : RevokeRole(u, r)
    \/ \E u \in InvitedUsers, c \in InvitedClients : AcceptClientInvitation(u, c)
    \/ \E u \in Principals : ListMatters(u)
    \/ \E u \in Principals : ListClients(u)
    \/ ChildNext

ChildSpec == ChildInit /\ [][ChildSpecNext]_vars

\* The organization was just created: its post_save signal starts a sync,
\* and every later save of the organization starts another one.
ConcInit ==
    /\ permRows = EmptyPermRows
    /\ roleRows = EmptyRoleRows
    /\ SyncIdle
    /\ NoData

ConcNext ==
    \/ \E p \in Runs : RunBegin(p)
    \/ \E p \in Runs : RunPermission(p)
    \/ \E p \in Runs : RunRoleGet(p)
    \/ \E p \in Runs : RunRoleRead(p)
    \/ \E p \in Runs : RunRoleWrite(p)
    \/ \E p \in Runs : RunCommit(p)
    \/ \E p \in Runs : RunFail(p)
    \/ \E c \in BOOLEAN, codes \in ManualPermSets :
            RunsIdle /\ AdminSaveRole(RunOrg, "Lawyer", c, codes)
    \/ RunsIdle /\ AdminDeleteRole(RunOrg, "Lawyer")
    \/ \E c \in EditablePerms : RunsIdle /\ AdminDeletePermission(c)

ConcSpec == ConcInit /\ [][ConcNext]_vars

\* Requests in flight, each with its user object, while role membership
\* changes.
CacheNext ==
    \/ \E u \in RequestUsers : RequestBegin(u)
    \/ \E u \in RequestUsers, permission \in CheckedPermissions : RequestHasPermission(u, permission)
    \/ \E u \in RequestUsers : RequestIsClientUser(u)
    \/ \E u \in RequestUsers : RequestClearCache(u)
    \/ \E u \in RequestUsers : RequestEnd(u)
    \/ \E u \in RequestUsers : \E r \in AssignableRoles(u) : GrantRole(u, r)
    \/ \E u \in RequestUsers : \E r \in AssignableRoles(u) \cup {"Client"} : RevokeRole(u, r)
    \/ \E u \in InvitedUsers, c \in InvitedClients : AcceptClientInvitation(u, c)

CacheSpec == Init /\ [][CacheNext]_vars

\* A portal user who is also given staff roles (UserRoleAdmin) and access
\* rows, and lists what the staff endpoints return.
ScopeRoles == {"Lawyer", "Admin"}
ScopeUsers == {"casey", "liam"}

\* The matters of the fixture, none with an access row yet.
ScopeInit ==
    /\ permRows = SyncedPermRows(EmptyPermRows)
    /\ roleRows = SyncedRoleRows(EmptyPermRows,
                     SyncedRoleRows(EmptyPermRows, EmptyRoleRows, "orgA"), "orgB")
    /\ SyncIdle
    /\ userRoles = [u \in Users |-> {}]
    /\ portalUser = [c \in Clients |-> NoUser]
    /\ matters = [MatterFixture EXCEPT ![3].access_list = {}]
    /\ deadlines = << >>
    /\ documents = << >>
    /\ response = NoResponse

ScopeNext ==
    \/ \E u \in InvitedUsers, c \in InvitedClients : AcceptClientInvitation(u, c)
    \/ \E u \in ScopeUsers, r \in ScopeRoles : GrantRole(u, r)
    \/ \E u \in ScopeUsers, r \in ScopeRoles \cup {"Client"} : RevokeRole(u, r)
    \/ \E m \in DOMAIN matters, u \in ScopeUsers : GrantMatterAccess(m, u)
    \/ \E u \in ScopeUsers, m \in DOMAIN matters : CreateDeadline(u, m)
    \/ \E u \in ScopeUsers : ListMatters(u)
    \/ \E u \in ScopeUsers : ListDeadlines(u)
    \/ \E u \in ScopeUsers : ListClients(u)

ScopeSpec == ScopeInit /\ [][ScopeNext]_vars

\* Requests that name rows of the own organization, of the other one, and
\* rows that do not exist, by primary key and in related fields.
RefUsers == {"liam", "bob"}

RefNext ==
    \/ \E u \in RefUsers : \E r \in AssignableRoles(u) : GrantRole(u, r)
    \/ \E u \in RefUsers : \E r \in AssignableRoles(u) : RevokeRole(u, r)
    \/ \E u \in RefUsers, id \in DOMAIN matters \cup {NoSuchId} : RetrieveMatter(u, id)
    \/ \E u \in RefUsers, id \in DOMAIN documents \cup {NoSuchId} : RetrieveDocument(u, id)
    \/ \E u \in RefUsers, c \in Clients, lead \in LeadChoices : CreateMatter(u, c, lead)
    \/ \E u \in RefUsers, m \in DOMAIN matters, lead \in LeadChoices : UpdateMatter(u, m, lead)
    \/ \E u \in RefUsers, m \in DOMAIN matters : CreateDeadline(u, m)
    \/ \E u \in RefUsers, m \in DOMAIN matters : CreateDocument(u, m)
    \/ \E u \in RefUsers, d \in DOMAIN documents \cup {NoSuchId}, m \in DOMAIN matters \cup {NoSuchId} :
            UpdateDocumentMatter(u, d, m)

RefSpec == ChildInit /\ [][RefNext]_vars

\* Documents are created and new versions of them uploaded by two workers.
VersionUsers == {"liam"}

VersionNext ==
    \/ \E u \in VersionUsers : \E r \in AssignableRoles(u) : GrantRole(u, r)
    \/ \E u \in VersionUsers, m \in DOMAIN matters : CreateDocument(u, m)
    \/ \E w \in Uploaders, u \in VersionUsers, d \in DOMAIN documents \cup {NoSuchId} :
            UploadVersionLoad(w, u, d)
    \/ \E w \in Uploaders : UploadVersionSave(w)
    \/ \E w \in Uploaders : UploadVersionRow(w)
    \/ \E w \in Uploaders : UploadVersionEnd(w)

VersionSpec == ChildInit /\ [][VersionNext]_vars


\* Evaluation of requirements against principals whose membership is any
\* set of at most MaxHeldRoles of these roles.
MaxHeldRoles == 2
EvalRoles == {"Lawyer", "Assistant", "IT / Security"}
EvalCodes == {"matter.view", "matter.manage", "org.view_audit_logs"}
EvalViews == {MatterViewSet, AuditEventViewSet, TimeEntryViewSet, DocumentViewSet}
EvalActions == {"", "list", "retrieve", "create", "update", "partial_update", "destroy", "summary"}

EvalInit ==
    /\ permRows = SyncedPermRows(EmptyPermRows)
    /\ roleRows = SyncedRoleRows(EmptyPermRows,
                     SyncedRoleRows(EmptyPermRows, EmptyRoleRows, "orgA"), "orgB")
    /\ SyncIdle
    /\ portalUser = [c \in Clients |-> NoUser]
    /\ matters = << >>
    /\ deadlines = << >>
    /\ documents = << >>
    /\ response = NoResponse
    /\ \E held \in SUBSET EvalRoles :
            /\ Cardinality(held) <= MaxHeldRoles
            /\ userRoles = [u \in Users |-> IF u = "liam" THEN held ELSE {}]

\* PermissionRequirement(all=..., any=...).is_satisfied(user)
EvaluateRequirement(u, all, any) ==
    /\ evaluated' = [NoEvaluation EXCEPT !.op = "is_satisfied", !.user = u,
                        !.requirement = PermissionRequirement(all, any),
                        !.result = is_satisfied(PermissionRequirement(all, any), u)]
    /\ response' = NoResponse
    /\ UNCHANGED <<rbacVars, syncPc, syncOrg, syncIdx, txPermRows, txRoleRows, syncOutcome, runVars, bizVars, userObj, dataVars>>

\* RBACPermission.has_permission(request, view) for the action of the request.
EvaluateView(u, view, action) ==
    /\ evaluated' = [NoEvaluation EXCEPT !.op = "RBACPermission", !.user = u,
                        !.view = view.name, !.action = action,
                        !.requirement = get_required_permissions(view, action),
                        !.result = RBACPermission(u, view, action)]
    /\ response' = NoResponse
    /\ UNCHANGED <<rbacVars, syncPc, syncOrg, syncIdx, txPermRows, txRoleRows, syncOutcome, runVars, bizVars, userObj, dataVars>>

EvalNext ==
    \/ \E u \in Principals, all \in SUBSET EvalCodes, any \in SUBSET EvalCodes :
            EvaluateRequirement(u, all, any)
    \/ \E u \in Principals, view \in EvalViews, action \in EvalActions :
            EvaluateView(u, view, action)
    \/ \E r \in EvalRoles : GrantRole("liam", r)
    \/ \E r \in EvalRoles : RevokeRole("liam", r)

EvalSpec == EvalInit /\ [][EvalNext]_vars


\* Staff of one role each listing the documents, invoices and deadlines of
\* matters they lead, were given access to, or have nothing to do with.
StaffRoles == {"Paralegal", "Assistant", "Accounting / Finance"}
StaffUsers == {"liam", "bob"}

DocumentFixture ==
    << [organization |-> "orgA", matter |-> 1, client_visible |-> FALSE, version |-> 1, versions |-> <<1>>],
       [organization |-> "orgA", matter |-> 2, client_visible |-> FALSE, version |-> 1, versions |-> <<1>>],
       [organization |-> "orgB", matter |-> 3, client_visible |-> FALSE, version |-> 1, versions |-> <<1>>] >>

InvoiceFixture ==
    << [organization |-> "orgA", matter |-> 1, status |-> "draft"],
       [organization |-> "orgA", matter |-> 2, status |-> "draft"],
       [organization |-> "orgB", matter |-> 3, status |-> "draft"] >>

StaffInit ==
    /\ permRows = SyncedPermRows(EmptyPermRows)
    /\ roleRows = SyncedRoleRows(EmptyPermRows,
                     SyncedRoleRows(EmptyPermRows, EmptyRoleRows, "orgA"), "orgB")
    /\ RunsIdle
    /\ CacheIdle
    /\ syncPc = "idle"
    /\ syncOrg = NoOrg
    /\ syncIdx = 1
    /\ txPermRows = EmptyPermRows
    /\ txRoleRows = EmptyRoleRows
    /\ syncOutcome = Outcome("none", "idle")
    /\ userRoles = [u \in Users |-> {}]
    /\ portalUser = [c \in Clients |-> NoUser]
    /\ matters = [MatterFixture EXCEPT ![3].access_list = {}]
    /\ deadlines = << >>
    /\ documents = DocumentFixture
    /\ invoices = InvoiceFixture
    /\ payments = << >>
    /\ organizations = Orgs
    /\ NumberIdle
    /\ InviteIdle
    /\ UploadIdle
    /\ LinkIdle
    /\ BillIdle
    /\ response = NoResponse

StaffNext ==
    \/ \E u \in StaffUsers, r \in StaffRoles : GrantRole(u, r)
    \/ \E u \in StaffUsers, r \in StaffRoles : RevokeRole(u, r)
    \/ \E m \in DOMAIN matters, u \in StaffUsers : GrantMatterAccess(m, u)
    \/ \E u \in StaffUsers, m \in DOMAIN matters : CreateDeadline(u, m)
    \/ \E u \in StaffUsers : ListDeadlines(u)
    \/ \E u \in StaffUsers : ListDocuments(u)
    \/ \E u \in StaffUsers : ListInvoices(u)

StaffSpec == StaffInit /\ [][StaffNext]_vars

\* Share links are created by staff and resolved by two workers while time passes.
LinkUsers == {"liam", "casey"}

LinkNext ==
    \/ \E u \in LinkUsers, t \in LinkTokens, d \in DOMAIN documents, one_time \in BOOLEAN :
            ShareLinkCreate(u, t, d, one_time)
    \/ Tick
    \/ \E g \in Resolvers, t \in LinkTokens : ResolveLookup(g, t)
    \/ \E g \in Resolvers : ResolveServe(g)
    \/ \E g \in Resolvers : ResolveEnd(g)

LinkSpec == StaffInit /\ [][LinkNext]_vars

\* Invoices are sent and marked paid by two workers on behalf of a member
\* whose roles are granted and revoked.
BillUsers == {"liam"}
BillRoles == {"Admin", "Assistant"}

BillNext ==
    \/ \E u \in BillUsers, r \in BillRoles : GrantRole(u, r)
    \/ \E u \in BillUsers, r \in BillRoles : RevokeRole(u, r)
    \/ \E w \in Billers, op \in {"send", "mark_paid"}, u \in BillUsers,
          id \in DOMAIN invoices \cup {NoSuchId} : InvoiceLoad(w, op, u, id)
    \/ \E w \in Billers : InvoiceSend(w)
    \/ \E w \in Billers : InvoiceMarkPaid(w)
    \/ \E w \in Billers : InvoiceEnd(w)

BillSpec == StaffInit /\ [][BillNext]_vars

\* Principals who hold the Client role next to staff roles (UserRoleAdmin)
\* and call the staff endpoints, naming rows of either organization.
LockoutRoles == {"Client", "Admin", "Lawyer"}
LockoutUsers == {"liam"}

LockoutInit ==
    /\ permRows = SyncedPermRows(EmptyPermRows)
    /\ roleRows = SyncedRoleRows(EmptyPermRows,
                     SyncedRoleRows(EmptyPermRows, EmptyRoleRows, "orgA"), "orgB")
    /\ SyncIdle
    /\ portalUser = [c \in Clients |-> NoUser]
    /\ matters = MatterFixture
    /\ deadlines = << >>
    /\ documents = << >>
    /\ response = NoResponse
    /\ \E held \in SUBSET LockoutRoles :
            /\ Cardinality(held) <= MaxHeldRoles
            /\ userRoles = [u \in Users |-> IF u = "liam" THEN held ELSE {}]

LockoutNext ==
    \/ \E u \in LockoutUsers, r \in LockoutRoles : GrantRole(u, r)
    \/ \E u \in LockoutUsers, r \in LockoutRoles : RevokeRole(u, r)
    \/ \E u \in LockoutUsers : ListMatters(u)
    \/ \E u \in LockoutUsers : ListClients(u)
    \/ \E u \in LockoutUsers : ListDeadlines(u)
    \/ \E u \in LockoutUsers : ListDocuments(u)
    \/ \E u \in LockoutUsers, id \in DOMAIN matters \cup {NoSuchId} : RetrieveMatter(u, id)
    \/ \E u \in LockoutUsers, c \in Clients, lead \in LeadChoices : CreateMatter(u, c, lead)
    \/ \E u \in LockoutUsers, m \in DOMAIN matters, lead \in LeadChoices : UpdateMatter(u, m, lead)
    \/ \E u \in LockoutUsers, m \in DOMAIN matters : CreateDeadline(u, m)
    \/ \E u \in LockoutUsers, m \in DOMAIN matters : CreateDocument(u, m)

LockoutSpec == LockoutInit /\ [][LockoutNext]_vars

(***************************************************************************)
(* Properties                                                              *)
(***************************************************************************)

ListOps == {"matter.list", "deadline.list", "client.list", "document.list",
            "portal.document.list"}

\* The organization column of a row a list returns.
RowOrganization(op, r) ==
    CASE op = "matter.list" -> matters[r].organization
      [] op = "deadline.list" -> deadlines[r].organization
      [] op = "client.list" -> clients[r].organization
      [] OTHER -> documents[r].organization

\* The bypass permissions the views pass, and the empty one.
BypassChoices == {"", "matter.view_all", "client.manage", "invoice.view_all"}

\* C1: tenant isolation.  For every principal and every list, each row that
\* organization scoping followed by row-level restriction returns belongs to
\* the principal's organization, whatever roles the principal holds (the
\* bypass permission included) and whatever access rows name the principal.
C1_TenantIsolation ==
    \A u \in Principals : \A op \in ListOps :
        /\ \A r \in ListResult(op, u) : RowOrganization(op, r) = organization_id(u)
        /\ \A bp \in BypassChoices :
               \A m \in restrict_matters_queryset(
                            get_queryset(matters, DOMAIN matters, u), u, bp) :
                   matters[m].organization = organization_id(u)

\* liam holds matter.view_all and is on the access list of a matter of the
\* other organization; the matter list answers 200 with rows and without it.
C1_Witness ==
    /\ response = Respond("matter.list", "liam", 200)
    /\ has_permission("liam", "matter.view_all")
    /\ \E m \in DOMAIN matters :
            /\ matters[m].organization # organization_id("liam")
            /\ "liam" \in matters[m].access_list
            /\ m \notin ListResult("matter.list", "liam")
    /\ ListResult("matter.list", "liam") # {}
    /\ \E d \in DOMAIN documents :
            /\ documents[d].organization = "orgB"
            /\ d \notin ListResult("document.list", "liam")

\* C2: fail closed.  For a principal that is not authenticated (the only
\* principal without an organization) scoping returns the empty collection
\* for every resource, whatever bypass permission is passed and whatever
\* rows exist.
C2_FailClosed ==
    \A u \in Principals :
        (~is_authenticated(u) \/ organization_id(u) = NoOrg) =>
            /\ \A op \in ListOps : ListResult(op, u) = {}
            /\ \A bp \in BypassChoices :
                /\ restrict_matters_queryset(
                        get_queryset(matters, DOMAIN matters, u), u, bp) = {}
                /\ restrict_related_queryset(
                        get_queryset(deadlines, DOMAIN deadlines, u),
                        u, DeadlineMatter, bp, FALSE, DeadlineNotFlagged) = {}
                /\ restrict_related_queryset(
                        get_queryset(clients, Clients, u),
                        u, ClientMatters, bp, FALSE, ClientNotFlagged) = {}
                /\ restrict_related_queryset(
                        get_queryset(documents, DOMAIN documents, u),
                        u, DocumentMatter, bp, TRUE, DocumentClientVisible) = {}

\* An anonymous list request was refused while matters, deadlines and
\* client-visible documents exist.
C2_Witness ==
    /\ response = Respond("document.list", Anonymous, 401)
    /\ DOMAIN matters # {}
    /\ DOMAIN deadlines # {}
    /\ \E d \in DOMAIN documents : documents[d].client_visible

\* The view and the action behind each request on the staff endpoints.
ViewOf(op) ==
    CASE op \in {"matter.list", "matter.create", "matter.update"} -> MatterViewSet
      [] op \in {"deadline.list", "deadline.create"} -> CaseDeadlineViewSet
      [] op = "client.list" -> ClientViewSet
      [] OTHER -> DocumentViewSet

ActionOf(op) ==
    CASE op \in {"matter.list", "deadline.list", "client.list", "document.list"} -> "list"
      [] op \in {"matter.create", "deadline.create", "document.create"} -> "create"
      [] OTHER -> "partial_update"

StaffOps == {"matter.list", "matter.create", "matter.update", "client.list"}

C4_StaffRowNarrowing ==
    \A u \in Users :
        (~has_permission(u, "matter.view_all") /\ client_profile(u) = NoClient) =>
            ListResult("matter.list", u) =
                {m \in DOMAIN matters :
                    /\ matters[m].organization = organization_id(u)
                    /\ \/ matters[m].lead_lawyer = u
                       \/ u \in matters[m].access_list}

\* The Lawyer liam listed matters: one matter is returned because liam is
\* on its access list although someone else leads it, and another matter of
\* the same organization, led by nobody and without access row, is not.
C4_Witness ==
    /\ response = Respond("matter.list", "liam", 200)
    /\ _role_names("liam") = {"Lawyer"}
    /\ client_profile("liam") = NoClient
    /\ \E m1, m2 \in DOMAIN matters :
            /\ matters[m1].organization = "orgA"
            /\ matters[m1].lead_lawyer # "liam"
            /\ "liam" \in matters[m1].access_list
            /\ m1 \in ListResult("matter.list", "liam")
            /\ matters[m2].organization = "orgA"
            /\ matters[m2].lead_lawyer # "liam"
            /\ "liam" \notin matters[m2].access_list
            /\ m2 \notin ListResult("matter.list", "liam")
DocumentListOps == {"document.list", "portal.document.list"}

\* C5: client-portal narrowing.  When a document list is answered 200 to a
\* principal linked to client profile X who does not hold document.view_all,
\* every document returned is on a matter whose client is X and is marked
\* client-visible.
C5_ClientPortalNarrowing ==
    (/\ response.op \in DocumentListOps
     /\ response.status = 200
     /\ client_profile(response.user) # NoClient
     /\ ~has_permission(response.user, "document.view_all")) =>
        \A d \in ListResult(response.op, response.user) :
            /\ matters[documents[d].matter].client = client_profile(response.user)
            /\ documents[d].client_visible

\* The same statement for the client portal's own list and for
\* restrict_related_queryset called with client_visible_only.
C5_PortalEndpointNarrowing ==
    \A u \in Users :
        (client_profile(u) # NoClient /\ ~has_permission(u, "document.view_all")) =>
            \A d \in ClientDocumentQueryset(u) \cup
                     restrict_related_queryset(
                        get_queryset(documents, DOMAIN documents, u), u,
                        DocumentMatter, "document.view_all", TRUE,
                        DocumentClientVisible) :
                /\ matters[documents[d].matter].client = client_profile(u)
                /\ documents[d].client_visible

\* The bypass permission each narrowed list passes.
BypassOf(op) == IF op = "client.list" THEN "client.manage" ELSE "matter.view_all"

NarrowedOps == {"matter.list", "deadline.list", "client.list"}

\* C6: bypass monotonicity.  Whenever a principal gains the bypass permission
\* of a resource family while the rows stay as they are, what scoping returns
\* to the principal afterwards contains what it returned before; whenever the
\* principal loses it, what is returned afterwards is contained in what was
\* returned before; both sets hold only rows of the principal's organization.
C6_BypassMonotonicity ==
    [][\A u \in Users : \A op \in NarrowedOps :
        UNCHANGED <<portalUser, matters, deadlines, documents>> =>
            /\ (~has_permission(u, BypassOf(op)) /\ has_permission(u, BypassOf(op))') =>
                  /\ ListResult(op, u) \subseteq ListResult(op, u)'
                  /\ \A r \in ListResult(op, u)' :
                        RowOrganization(op, r) = organization_id(u)
            /\ (has_permission(u, BypassOf(op)) /\ ~has_permission(u, BypassOf(op))') =>
                  /\ ListResult(op, u)' \subseteq ListResult(op, u)
                  /\ \A r \in ListResult(op, u) :
                        RowOrganization(op, r) = organization_id(u)]_vars

\* liam holds matter.view_all and listed deadlines: the list holds a deadline
\* of a matter liam neither leads nor has access to, and one of a matter
\* liam leads.
C6_Witness ==
    /\ response = Respond("deadline.list", "liam", 200)
    /\ has_permission("liam", "matter.view_all")
    /\ \E d \in ListResult("deadline.list", "liam") :
            /\ matters[deadlines[d].matter].lead_lawyer # "liam"
            /\ "liam" \notin matters[deadlines[d].matter].access_list
    /\ \E m \in ListResult("matter.list", "liam") : matters[m].lead_lawyer = "liam"
    /\ \E m \in ListResult("matter.list", "liam") : matters[m].lead_lawyer # "liam"

\* A step with which a sync_organization_roles call returns normally.
SyncReturns == syncPc = "commit" /\ syncOutcome'.result = "ok"

\* A step of a running sync_organization_roles call.
SyncStep == syncPc # "idle" \/ syncPc' # "idle"

\* C7: system-role reset.  When sync_organization_roles(organization)
\* completes, every canonical system role of that organization is stored
\* once, with is_custom false and with exactly its canonical permission set,
\* whatever the role held before the run.
C7_SystemRoleReset ==
    [][SyncReturns =>
        \A name \in SystemRoleNames :
            roleRows'[<<syncOrg, name>>] =
                << [is_custom |-> ROLE_DEFINITIONS[name].is_custom,
                    permissions |-> ROLE_DEFINITIONS[name].permissions] >>]_vars

\* A run is about to return for an organization whose Lawyer role had been
\* flagged custom, stripped of canonical permissions and given
\* matter.view_all by hand.
C7_Witness ==
    /\ syncPc = "commit"
    /\ roleRows[<<syncOrg, "Lawyer">>] =
          << [is_custom |-> TRUE, permissions |-> {"matter.view", "matter.view_all"}] >>
    /\ txRoleRows[<<syncOrg, "Lawyer">>] =
          << [is_custom |-> FALSE, permissions |-> ROLE_DEFINITIONS["Lawyer"].permissions] >>

\* C8: sync idempotence.  The state a completed run leaves is the state one
\* run produces from the state before it, and running again on that state
\* changes nothing: a run that starts from the result of a run leaves the
\* Permission and Role tables as they are.  After a run there is exactly one
\* Role row per canonical role name of the organization and exactly one
\* Permission row per canonical codename.
C8_SyncIdempotence ==
    [][SyncReturns =>
        /\ permRows' = SyncedPermRows(permRows)
        /\ roleRows' = SyncedRoleRows(permRows, roleRows, syncOrg)
        /\ SyncedPermRows(permRows') = permRows'
        /\ SyncedRoleRows(permRows', roleRows', syncOrg) = roleRows'
        /\ (/\ permRows = SyncedPermRows(permRows)
            /\ roleRows = SyncedRoleRows(permRows, roleRows, syncOrg)) =>
                UNCHANGED <<permRows, roleRows>>
        /\ \A c \in Codenames : Len(permRows'[c]) = 1
        /\ \A name \in SystemRoleNames : Len(roleRows'[<<syncOrg, name>>]) = 1]_vars

\* A run on an already synchronized organization is about to return: every
\* canonical row existed before it and the run has changed nothing.
C8_Witness ==
    /\ syncPc = "commit"
    /\ \A name \in SystemRoleNames : roleRows[<<syncOrg, name>>] # << >>
    /\ \A c \in Codenames : permRows[c] # << >>
    /\ txRoleRows = roleRows
    /\ txPermRows = permRows

\* C9: sync leaves custom roles alone.  A role whose name is none of the
\* canonical system role names (an administrator-defined role) keeps its
\* permission set and its is_custom flag through every step of every
\* sync_organization_roles run, on its own organization or on another one,
\* in the committed table and inside the run's transaction.
C9_CustomRolesUntouched ==
    [][SyncStep =>
        \A k \in RoleKeys :
            k[2] \notin SystemRoleNames =>
                /\ roleRows'[k] = roleRows[k]
                /\ syncPc' # "idle" => txRoleRows'[k] = roleRows[k]]_vars

\* A run on an organization that has the custom role Clerk is about to
\* return; it has rewritten system roles and left Clerk as it was.
C9_Witness ==
    /\ syncPc = "commit"
    /\ roleRows[<<syncOrg, "Clerk">>] =
          << [is_custom |-> TRUE, permissions |-> {"matter.view", "matter.view_all"}] >>
    /\ txRoleRows[<<syncOrg, "Clerk">>] = roleRows[<<syncOrg, "Clerk">>]
    /\ txRoleRows # roleRows

\* No stored system role has an empty permission set.
NoEmptySystemRole ==
    \A k \in RoleKeys :
        k[2] \in SystemRoleNames =>
            \A i \in DOMAIN roleRows[k] : roleRows[k][i].permissions # {}

\* C10: sync is all-or-nothing.  No step of a run other than its normal
\* return changes the Permission or Role table; a run that fails commits
\* nothing, reports the failure to its caller and leaves the synchronizer
\* ready to run again; and after every step of a run, failed or not, no
\* stored system role has an empty permission set.
C10_AllOrNothing ==
    [][SyncStep =>
        /\ ~SyncReturns => UNCHANGED <<permRows, roleRows>>
        /\ (syncPc # "idle" /\ syncPc' = "idle" /\ ~SyncReturns) =>
              /\ syncOutcome'.result = "failed"
              /\ txPermRows' = EmptyPermRows
              /\ txRoleRows' = EmptyRoleRows
              /\ syncOrg' = NoOrg
              /\ syncIdx' = 1
        /\ NoEmptySystemRole']_vars

\* The first run for an organization failed at the permissions.set of a
\* role it had just created without permissions; nothing was committed.
C10_Witness ==
    /\ syncOutcome = Outcome("failed", "role_set")
    /\ syncPc = "idle"
    /\ \A k \in RoleKeys : k[2] \in SystemRoleNames => roleRows[k] = << >>
    /\ permRows = EmptyPermRows

\* The permission-set rows a run has written and not yet committed.
UncommittedLinks(p) == UNION {runTx[p].del[n] \cup runTx[p].add[n] : n \in SystemRoleNames}

\* A concurrent run returns normally.
RunReturns(p) == runPc[p] = "commit" /\ runPc'[p] = "idle" /\ syncOutcome'.result = "ok"

\* C11: concurrent syncs are serialized.  Under any interleaving of the
\* statements of two sync_organization_roles runs for the same organization,
\* the permission-set replacements of the runs never interleave (at no time
\* do two runs both hold uncommitted changes of permission sets, nor
\* uncommitted inserts of the same Permission or Role), and when a run
\* returns every system role of the organization has exactly one row, with
\* exactly its canonical permission set.
C11_SerializedSyncs ==
    [][/\ \A p, q \in Runs :
            p # q => /\ UncommittedLinks(p) = {} \/ UncommittedLinks(q) = {}
                     /\ runTx[p].perms \cap runTx[q].perms = {}
                     /\ runTx[p].roles \cap runTx[q].roles = {}
       /\ \A p \in Runs :
            RunReturns(p) =>
                \A name \in SystemRoleNames :
                    roleRows'[<<RunOrg, name>>] =
                        << [is_custom |-> ROLE_DEFINITIONS[name].is_custom,
                            permissions |-> ROLE_DEFINITIONS[name].permissions] >>]_vars

\* One run has replaced the hand-edited permission set of Lawyer and not yet
\* committed; the other run has read the same hand-edited set and is at the
\* write of its own replacement.
C11_Witness ==
    \E p, q \in Runs :
        /\ p # q
        /\ roleRows[<<RunOrg, "Lawyer">>] # << >>
        /\ roleRows[<<RunOrg, "Lawyer">>][1].permissions = {"matter.view", "matter.view_all"}
        /\ runTx[p].del["Lawyer"] = {"matter.view_all"}
        /\ runTx[p].add["Lawyer"] # {}
        /\ runPc[q] = "role_write"
        /\ RoleOrder[runIdx[q]] = "Lawyer"
        /\ runOld[q].old = {"matter.view", "matter.view_all"}
        /\ runOld[q].new = ROLE_DEFINITIONS["Lawyer"].permissions

\* C12: cache invalidation on membership change.  Every operation that
\* changes a principal's role membership (ensure_role, the deletion of a
\* UserRole row, the acceptance of an invitation) clears the memoized role
\* names and permission codes of the principal, so every has_permission and
\* every role-name test evaluated on the principal's user object returns
\* what the membership at the time of the evaluation gives.
C12_CacheInvalidation ==
    /\ evaluated.op = "has_permission" =>
            evaluated.result = has_permission(evaluated.user, evaluated.permission)
    /\ evaluated.op = "is_client_user" =>
            evaluated.result = is_client_user(evaluated.user)

\* C13: cache consistency after revoke.  When has_permission(principal, X)
\* returned true on a user object and was memoized, the principal's
\* membership then lost every role granting X, and clear_permission_cache
\* was called on the object after the last membership change, then
\* has_permission(principal, X) on that object returns false.
C13_ConsistentAfterRevoke ==
    \A u \in Users, X \in CheckedPermissions :
        ( /\ evaluated.op = "has_permission"
          /\ evaluated.user = u
          /\ evaluated.permission = X
          /\ X \in userObj[u].seen
          /\ userObj[u].origin = "cleared"
          /\ ~userObj[u].changed
          /\ ~has_permission(u, X) )
        => evaluated.result = FALSE

\* liam's request saw matter.view granted; liam's role was revoked, the cache
\* cleared, and the same request now sees matter.view refused.
C13_Witness ==
    /\ evaluated.op = "has_permission"
    /\ evaluated.user = "liam"
    /\ evaluated.permission = "matter.view"
    /\ evaluated.result = FALSE
    /\ "matter.view" \in userObj["liam"].seen
    /\ userObj["liam"].origin = "cleared"
    /\ ~userObj["liam"].changed
    /\ userRoles["liam"] = {}

\* C14: per-request cache lifetime.  The memoized sets of a principal do not
\* outlive the request that computed them: no user object without a request
\* holds them, and every has_permission of a request that began after the
\* last change of the principal's membership returns what the committed
\* membership gives, whatever earlier requests had memoized.
C14_PerRequestCache ==
    \A u \in Users :
        /\ ~userObj[u].live =>
                ~userObj[u]._cached_role_names.cached /\ ~userObj[u]._cached_permission_codes.cached
        /\ ( /\ evaluated.op = "has_permission"
             /\ evaluated.user = u
             /\ userObj[u].origin = "loaded"
             /\ ~userObj[u].changed )
           => evaluated.result = has_permission(u, evaluated.permission)

\* An earlier request of liam saw matter.view granted; the role was revoked
\* after it; the request now in flight sees matter.view refused.
C14_Witness ==
    /\ evaluated.op = "has_permission"
    /\ evaluated.user = "liam"
    /\ evaluated.permission = "matter.view"
    /\ evaluated.result = FALSE
    /\ "matter.view" \in userObj["liam"].before
    /\ userObj["liam"].origin = "loaded"
    /\ ~userObj["liam"].changed
    /\ userObj["liam"].seen = {}

\* The principal holds the code: it is in the permission set of a role the
\* principal has a UserRole row for.
Holds(u, code) ==
    \E r \in userRoles[u] :
        /\ roleRows[<<organization_id(u), r>>] # << >>
        /\ code \in roleRows[<<organization_id(u), r>>][1].permissions

\* C15: requirement vacuity.  is_satisfied is false for every
\* unauthenticated principal; for an authenticated principal it is true
\* exactly when every code of `all` is held and, when `any` is not empty, at
\* least one code of `any` is held; so the requirement with empty `all` and
\* empty `any` is satisfied by every authenticated principal and by no
\* unauthenticated one.
C15_RequirementVacuity ==
    evaluated.op = "is_satisfied" =>
        LET u == evaluated.user
            req == evaluated.requirement
        IN /\ u = Anonymous => evaluated.result = FALSE
           /\ u # Anonymous =>
                evaluated.result =
                    ( /\ \A c \in req.all : Holds(u, c)
                      /\ req.any # {} => \E c \in req.any : Holds(u, c) )
           /\ (req.all = {} /\ req.any = {}) => evaluated.result = (u # Anonymous)

\* The empty requirement was evaluated for casey, who is authenticated and
\* holds no role, and was satisfied.
C15_Witness ==
    /\ evaluated.op = "is_satisfied"
    /\ evaluated.user = "casey"
    /\ evaluated.requirement = PermissionRequirement({}, {})
    /\ evaluated.result = TRUE
    /\ userRoles["casey"] = {}

\* C16: union semantics.  The effective permission set of a principal is the
\* union of the permission sets of the roles the principal holds: a
\* principal holding two roles, with disjoint permission sets or not,
\* satisfies has_permissions for the codes of the one together with the
\* codes of the other, and a membership that contains another gives at least
\* its permissions.
C16_UnionSemantics ==
    [][\A u \in Users :
        /\ _permission_codes(u) = {c \in Codenames : Holds(u, c)}
        /\ \A r1, r2 \in userRoles[u] :
                has_permissions(u, ROLE_DEFINITIONS[r1].permissions \cup ROLE_DEFINITIONS[r2].permissions)
        /\ userRoles[u] \subseteq userRoles'[u] => _permission_codes(u) \subseteq _permission_codes(u)'
        /\ userRoles'[u] \subseteq userRoles[u] => _permission_codes(u)' \subseteq _permission_codes(u)]_vars

\* liam holds Lawyer and IT / Security, whose permission sets are disjoint,
\* and a requirement naming a code of each was evaluated and satisfied.
C16_Witness ==
    /\ userRoles["liam"] = {"Lawyer", "IT / Security"}
    /\ ROLE_DEFINITIONS["Lawyer"].permissions \cap ROLE_DEFINITIONS["IT / Security"].permissions = {}
    /\ evaluated.op = "is_satisfied"
    /\ evaluated.user = "liam"
    /\ evaluated.requirement = PermissionRequirement({"matter.manage", "org.view_audit_logs"}, {})
    /\ evaluated.result = TRUE

\* The six actions of the convention.
ReadActions == {"list", "retrieve"}
WriteActions == {"create", "update", "partial_update", "destroy"}

\* C17: requirement resolution.  get_required_permissions returns the
\* requirement registered for the action when there is one; otherwise, when
\* the view has a resource tag, <resource>.view for list and retrieve and
\* <resource>.manage for create, update, partial_update and destroy;
\* otherwise no requirement, and RBACPermission then allows the action.
C17_RequirementResolution ==
    evaluated.op = "RBACPermission" =>
        \A view \in EvalViews :
            view.name = evaluated.view =>
                LET action == evaluated.action
                    req == evaluated.requirement
                IN IF action \in DOMAIN view.rbac_permissions
                   THEN req = view.rbac_permissions[action]
                   ELSE IF view.rbac_resource # "" /\ action \in ReadActions
                   THEN req = PermissionRequirement({view.rbac_resource \o ".view"}, {})
                   ELSE IF view.rbac_resource # "" /\ action \in WriteActions
                   THEN req = PermissionRequirement({view.rbac_resource \o ".manage"}, {})
                   ELSE req = NoRequirement /\ evaluated.result = TRUE

\* destroy on AuditEventViewSet, which registers list and retrieve only,
\* resolved to audit.manage by the convention and was refused.
C17_Witness ==
    /\ evaluated.op = "RBACPermission"
    /\ evaluated.view = "AuditEventViewSet"
    /\ evaluated.action = "destroy"
    /\ evaluated.requirement = PermissionRequirement({"audit.manage"}, {})
    /\ evaluated.result = FALSE

\* The rows of the principal's organization associated with the principal's
\* client profile: the client-linked narrowing of a list.
ClientLinkedRows(op, u) ==
    CASE op = "matter.list" ->
            {m \in DOMAIN matters :
                /\ matters[m].organization = organization_id(u)
                /\ ~matters[m].is_deleted
                /\ matters[m].client = client_profile(u)}
      [] op = "deadline.list" ->
            {d \in DOMAIN deadlines :
                /\ deadlines[d].organization = organization_id(u)
                /\ matters[deadlines[d].matter].client = client_profile(u)}
      [] OTHER ->
            {c \in Clients :
                /\ clients[c].organization = organization_id(u)
                /\ ~clients[c].is_deleted
                /\ c = client_profile(u)
                /\ \E m \in DOMAIN matters : matters[m].client = c}

\* The rows of the principal's organization: the organization-wide view.
OrganizationRows(op, u) ==
    CASE op = "matter.list" ->
            {m \in DOMAIN matters :
                matters[m].organization = organization_id(u) /\ ~matters[m].is_deleted}
      [] op = "deadline.list" ->
            {d \in DOMAIN deadlines : deadlines[d].organization = organization_id(u)}
      [] OTHER ->
            {c \in Clients :
                clients[c].organization = organization_id(u) /\ ~clients[c].is_deleted}

\* C18 as stated: client precedence.  A principal that has a linked client
\* profile is scoped as a client whatever staff roles and permissions it
\* also holds: a list answered to such a principal is the client-linked
\* narrowing, never the lead/access narrowing and never the
\* organization-wide view.
C18_ClientPrecedence ==
    (/\ response.op \in NarrowedOps
     /\ response.status = 200
     /\ client_profile(response.user) # NoClient) =>
        ListResult(response.op, response.user) = ClientLinkedRows(response.op, response.user)

\* C18 amended: a principal that has a linked client profile and does not
\* hold the bypass permission of the list is scoped as a client whatever
\* staff roles, lead assignments and access rows it has: the list is the
\* client-linked narrowing.  When the principal holds the bypass permission
\* the list is the organization-wide view.
C18_ClientPrecedenceBelowBypass ==
    (/\ response.op \in NarrowedOps
     /\ response.status = 200
     /\ client_profile(response.user) # NoClient) =>
        LET u == response.user
            op == response.op
        IN ListResult(op, u) =
              IF has_permission(u, BypassOf(op))
              THEN OrganizationRows(op, u)
              ELSE ClientLinkedRows(op, u)

\* casey is the portal user of client c1, holds the Lawyer role and has an
\* access row on a matter of client c2: the matter list answered to casey
\* holds the matter of c1 and not the matter casey has access to.
C18_Witness ==
    /\ response = Respond("matter.list", "casey", 200)
    /\ client_profile("casey") = "c1"
    /\ _role_names("casey") = {"Lawyer"}
    /\ \E m \in DOMAIN matters :
            /\ matters[m].organization = "orgA"
            /\ matters[m].client = "c2"
            /\ "casey" \in matters[m].access_list
            /\ m \notin ListResult("matter.list", "casey")
    /\ \E m \in ListResult("matter.list", "casey") : matters[m].client = "c1"

TargetedOps == {"matter.retrieve", "document.retrieve", "document.partial_update"}

\* The view and the action of a request that names a row.
TargetedView(op) == IF op = "matter.retrieve" THEN MatterViewSet ELSE DocumentViewSet
TargetedAction(op) == IF op = "document.partial_update" THEN "partial_update" ELSE "retrieve"

\* C19: tenant mismatch is indistinguishable from not found.  A request that
\* names a row of another organization, by primary key or in a field of its
\* payload, is rejected and changes nothing, and its response is the
\* response the same request gets when it names a row that does not exist:
\* the refusal of the permission check when the principal fails it, else 404
\* for the row of the URL and 400 for a row named in a field.
C19_MismatchAsNotFound ==
    [][(response'.op \in TargetedOps /\ response'.target \in {"foreign", "missing"}) =>
        LET u == response'.user
            status == CheckPermissions(u, TargetedView(response'.op), TargetedAction(response'.op))
        IN /\ response'.status =
                IF status # 200 THEN status
                ELSE IF response'.field = "pk" THEN 404 ELSE 400
           /\ UNCHANGED dataVars]_vars

\* C20: no cross-organization references.  In every state the requests
\* reach, the client and the lead lawyer of a matter, the matter of a
\* deadline and the matter of a document belong to the organization of the
\* row; a create or update naming a row of another organization in a field
\* is answered with a validation error.
C20_NoCrossOrganizationReferences ==
    /\ \A m \in DOMAIN matters :
            /\ clients[matters[m].client].organization = matters[m].organization
            /\ matters[m].lead_lawyer # NoUser =>
                    organization_id(matters[m].lead_lawyer) = matters[m].organization
    /\ \A d \in DOMAIN deadlines :
            matters[deadlines[d].matter].organization = deadlines[d].organization
    /\ \A d \in DOMAIN documents :
            matters[documents[d].matter].organization = documents[d].organization
    /\ (/\ response.op = "document.partial_update"
        /\ response.field = "matter"
        /\ response.target = "foreign") => response.status = 400

\* The requests served by viewsets with the default permission classes.
InternalOps ==
    {"matter.list", "matter.create", "matter.update", "matter.retrieve", "client.list",
     "deadline.list", "deadline.create", "document.list", "document.create"}

\* C21: client principals are locked out of internal endpoints.  Every
\* request to a staff viewset by a principal who holds the role named Client
\* is answered 403, whatever other roles the principal holds and whichever
\* organization's rows the request names.
C21_ClientLockout ==
    (/\ response.op \in InternalOps
     /\ response.user \in Users
     /\ "Client" \in _role_names(response.user)) => response.status = 403

C21_Witness ==
    /\ response.op = "matter.list"
    /\ response.user = "liam"
    /\ userRoles["liam"] = {"Client", "Admin"}
    /\ response.status = 403

\* C22: document listing requires document.view.  A member of an
\* organization who does not hold document.view is answered 403 when listing
\* documents on the staff endpoint, and a member whose only role is
\* Accounting / Finance is answered 200 when listing invoices.
C22_DocumentListRequiresView ==
    /\ (/\ response.op = "document.list"
        /\ response.user \in Users
        /\ ~has_permission(response.user, "document.view")) => response.status = 403
    /\ (/\ response.op = "invoice.list"
        /\ response.user \in Users
        /\ _role_names(response.user) = {"Accounting / Finance"}) => response.status = 200

ChildListOps == {"document.list", "invoice.list", "deadline.list"}

\* The organization and the parent matter of row r of the table behind op.
ChildRow(op, r) ==
    CASE op = "document.list" -> documents[r]
      [] op = "invoice.list" -> [organization |-> invoices[r].organization, matter |-> invoices[r].matter]
      [] OTHER -> [organization |-> deadlines[r].organization, matter |-> deadlines[r].matter]

ChildRows(op) ==
    CASE op = "document.list" -> DOMAIN documents
      [] op = "invoice.list" -> DOMAIN invoices
      [] OTHER -> DOMAIN deadlines

ChildBypass(op) ==
    CASE op = "document.list" -> "document.view_all"
      [] op = "invoice.list" -> "invoice.view_all"
      [] OTHER -> "matter.view_all"

\* C23: child resources are narrowed through their parent matter.  When a
\* list of documents, invoices or deadlines is answered 200 to a staff
\* principal without the family's bypass permission and without a client
\* profile, it returns exactly the rows of the principal's organization whose
\* parent matter the principal leads or has an access row on.
C23_ChildNarrowing ==
    (/\ response.op \in ChildListOps
     /\ response.status = 200
     /\ ~has_permission(response.user, ChildBypass(response.op))
     /\ client_profile(response.user) = NoClient) =>
        ListResult(response.op, response.user) =
            {r \in ChildRows(response.op) :
                /\ ChildRow(response.op, r).organization = organization_id(response.user)
                /\ \/ matters[ChildRow(response.op, r).matter].lead_lawyer = response.user
                   \/ response.user \in matters[ChildRow(response.op, r).matter].access_list}

\* The label the catalog gives codename c.
CatalogLabel(c) ==
    PERMISSION_DEFINITIONS[CHOOSE n \in DOMAIN PERMISSION_DEFINITIONS :
                                PERMISSION_DEFINITIONS[n].codename = c].label

\* C24: permission catalog upsert.  When a sync_organization_roles run
\* returns, every canonical codename has exactly one Permission row, and the
\* label of that row is the label the catalog gives the codename, whether the
\* run created the row or found it.
C24_CatalogUpsert ==
    [][SyncReturns =>
        \A c \in Codenames :
            /\ Len(permRows'[c]) = 1
            /\ permRows'[c][1].label = CatalogLabel(c)]_vars

\* Every canonical system role of org is stored once with its canonical set.
CanonicalRoles(rows, org) ==
    \A name \in SystemRoleNames :
        rows[<<org, name>>] =
            << [is_custom |-> ROLE_DEFINITIONS[name].is_custom,
                permissions |-> ROLE_DEFINITIONS[name].permissions] >>

C26_MatterNumbering ==
    /\ \A org \in Orgs :
            /\ orgRows[org].next_matter_number = 1 + Len(issued[org])
            /\ \A i \in DOMAIN issued[org] : issued[org][i].sequence = <<0, 0, 0, i>>
    /\ \A i, j \in DOMAIN matterCodes :
            (/\ i # j
             /\ matterCodes[i].generated
             /\ matterCodes[j].generated
             /\ matterCodes[i].organization = matterCodes[j].organization) =>
                matterCodes[i].reference_code.sequence # matterCodes[j].reference_code.sequence

\* Worker p takes up an accept request for token t with this step.
AcceptArrives(p, t) == acceptReq[p].pc = "idle" /\ acceptReq'[p].pc # "idle" /\ acceptReq'[p].token = t

\* C27: invitation lifecycle.  An accept request passes validation only
\* while the invitation is pending and its expiry lies in the future; an
\* accept answered 201 has created one user holding the invitation's role
\* and left the status accepted; an accept arriving for an accepted or an
\* expired invitation is answered 400 at once, and a request that is
\* answered 400 or 500 creates no user, no UserRole and no client link.
C27_InvitationLifecycle ==
    [][\A p \in Acceptors :
        /\ \A t \in Tokens :
            AcceptArrives(p, t) =>
                /\ (acceptReq'[p].pc = "create") <=>
                        (invitations[t].status = "pending" /\ now < invitations[t].expires_at)
                /\ (invitations[t].status = "accepted" \/ now >= invitations[t].expires_at) =>
                        acceptReq'[p].status = 400
                /\ UNCHANGED <<userRows, userRoles, portalUser, invitations>>
        /\ (acceptReq'[p].status = 201 /\ acceptReq[p].status # 201) =>
                /\ invitations'[acceptReq[p].token].status = "accepted"
                /\ invitations[acceptReq[p].token].email \in userRows
                /\ userRoles[invitations[acceptReq[p].token].email] =
                        {invitations[acceptReq[p].token].role}
        /\ (acceptReq'[p].status \in {400, 500} /\ acceptReq[p].status = 0) =>
                UNCHANGED <<userRows, userRoles, portalUser, invitations>>
        /\ (userRows' # userRows) =>
                \E q \in Acceptors :
                    /\ acceptReq[q].pc = "create"
                    /\ userRows' = userRows \cup {invitations[acceptReq[q].token].email}
                    /\ invitations[acceptReq[q].token].email \notin userRows]_vars

\* A second accept with the token of an accepted invitation was answered 400
\* while the user of the first accept exists with the Client role.
C27_Witness ==
    /\ invitations["t1"].status = "accepted"
    /\ "casey" \in userRows
    /\ userRoles["casey"] = {"Client"}
    /\ portalUser["c1"] = "casey"
    /\ \E p \in Acceptors : acceptReq[p] = [pc |-> "done", token |-> "t1", status |-> 400]

\* No upload-version request is between its two writes for document d.
VersionsSettled(d) == \A w \in Uploaders : uploadReq[w].pc \in {"save", "row"} => uploadReq[w].document # d

\* C28: document version numbering.  Whenever no upload-version request is
\* between its writes for a document, the document's version equals the
\* number of its DocumentVersion rows and the rows carry the distinct
\* version numbers 1..version.
C28_VersionNumbering ==
    \A d \in DOMAIN documents :
        VersionsSettled(d) =>
            /\ documents[d].version = Len(documents[d].versions)
            /\ \A n \in 1..documents[d].version :
                    Cardinality({i \in DOMAIN documents[d].versions : documents[d].versions[i] = n}) = 1

\* C29: one-time share links are single use.  For a share link with
\* one_time set, at most one resolve request is ever answered with a
\* download URL, however the resolves of its token overlap.
C29_OneTimeSingleUse ==
    \A t \in LinkTokens : shareLinks[t].one_time => shareLinks[t].accessed <= 1

\* The Payment rows recorded for invoice id.
PaymentsOf(rows, id) == {i \in DOMAIN rows : rows[i].invoice = id}

\* C30: paid is terminal for invoices.  From a state in which an invoice's
\* status is paid, no step of a send or mark-paid request changes that
\* status or adds a Payment for the invoice.
C30_PaidIsTerminal ==
    [][\A id \in DOMAIN invoices :
        invoices[id].status = "paid" =>
            /\ invoices'[id].status = "paid"
            /\ PaymentsOf(payments', id) = PaymentsOf(payments, id)]_vars

====
